---- MODULE Spec2Model ----
(***************************************************************************)
(* Authentication pipeline of the iMessage bridge: the AppleAccount SRP     *)
(* login state machine (icloud-auth/src/client.rs), its login drivers       *)
(* (client.rs login_with_anisette, rustpushgo/src/lib.rs LoginSession) and  *)
(* the AnisetteClient header cache (omnisette/src/lib.rs).                  *)
(***************************************************************************)
EXTENDS Integers, Sequences, FiniteSets, TLC

(***************************************************************************)
(* Unsigned machine integers.  The ttl arithmetic of client.rs is done in   *)
(* u64 (the type Duration::from_millis and Duration::from_secs take), and   *)
(* its values exceed the 32-bit integers of the model checker, so a number  *)
(* is a little-endian sequence of 16-bit limbs; a u64 has U64Limbs limbs.   *)
(* Instants are u64 milliseconds since SystemTime::UNIX_EPOCH.              *)
(***************************************************************************)
LimbBase == 2 ^ 16

U64Limbs == 4

Zero(w) == [i \in 1..w |-> 0]

\* [limbs, carry] of a * k + c for a small multiplier k and small addend c
RECURSIVE MulAddFrom(_, _, _, _)
MulAddFrom(a, k, c, i) ==
    IF i > Len(a) THEN [limbs |-> <<>>, carry |-> c]
    ELSE LET p == a[i] * k + c
             rest == MulAddFrom(a, k, p \div LimbBase, i + 1)
         IN  [limbs |-> <<p % LimbBase>> \o rest.limbs, carry |-> rest.carry]

\* wrapping a * k + c, as u64::wrapping_mul / wrapping_add
MulAdd(a, k, c) == MulAddFrom(a, k, c, 1).limbs

MulAddOverflows(a, k, c) == MulAddFrom(a, k, c, 1).carry # 0

FromNat(n, w) == MulAdd(Zero(w), 0, n)

\* the value written in decimal groups of three digits: <<1, 700, 0>> is 1_700_000
RECURSIVE Thousands(_, _)
Thousands(gs, w) ==
    IF gs = <<>> THEN Zero(w)
    ELSE MulAdd(Thousands(SubSeq(gs, 1, Len(gs) - 1), w), 1000, gs[Len(gs)])

\* the wrapping product of the factors fs in width w
RECURSIVE Product(_, _)
Product(fs, w) ==
    IF fs = <<>> THEN FromNat(1, w)
    ELSE MulAdd(Product(SubSeq(fs, 1, Len(fs) - 1), w), fs[Len(fs)], 0)

RECURSIVE ProductOverflows(_, _)
ProductOverflows(fs, w) ==
    /\ fs # <<>>
    /\ \/ ProductOverflows(SubSeq(fs, 1, Len(fs) - 1), w)
       \/ MulAddOverflows(Product(SubSeq(fs, 1, Len(fs) - 1), w), fs[Len(fs)], 0)

RECURSIVE AddFrom(_, _, _, _)
AddFrom(a, b, c, i) ==
    IF i > Len(a) THEN <<>>
    ELSE LET s == a[i] + b[i] + c
         IN  <<s % LimbBase>> \o AddFrom(a, b, s \div LimbBase, i + 1)

Add(a, b) == AddFrom(a, b, 0, 1)

RECURSIVE SubFrom(_, _, _, _)
SubFrom(a, b, c, i) ==
    IF i > Len(a) THEN <<>>
    ELSE LET d == a[i] - b[i] - c
         IN  <<d % LimbBase>> \o SubFrom(a, b, IF d < 0 THEN 1 ELSE 0, i + 1)

\* a - b for a >= b
Sub(a, b) == SubFrom(a, b, 0, 1)

RECURSIVE LessFrom(_, _, _)
LessFrom(a, b, i) ==
    /\ i >= 1
    /\ \/ a[i] < b[i]
       \/ a[i] = b[i] /\ LessFrom(a, b, i - 1)

Less(a, b) == LessFrom(a, b, Len(a))

Leq(a, b) == ~Less(b, a)

U64(gs) == Thousands(gs, U64Limbs)

\* Duration::from_secs(n) in milliseconds
Secs(n) == MulAdd(n, 1000, 0)

(***************************************************************************)
(* Option<T>: None is the empty sequence, Some(v) a sequence of one value.  *)
(***************************************************************************)
None == <<>>

Some(v) == <<v>>

IsSome(o) == Len(o) > 0

IsNone(o) == Len(o) = 0

(***************************************************************************)
(* Service ids of the token store and the strings the server issues.        *)
(***************************************************************************)
PetId == "com.apple.gs.idms.pet"

HbId == "com.apple.gs.idms.hb"

GsId == "com.apple.gs.icloud.family.auth"

\* the token string the server puts for `name` into its g-th granting response
Tok(name, g) == name \o "#" \o ToString(g)

\* LoginState
LS(kind, arg) == [kind |-> kind, arg |-> arg]

LoggedIn == LS("LoggedIn", None)

NeedsDevice2FA == LS("NeedsDevice2FA", None)

Needs2FAVerification == LS("Needs2FAVerification", None)

NeedsSMS2FA == LS("NeedsSMS2FA", None)

NeedsSMS2FAVerification(body) == LS("NeedsSMS2FAVerification", Some(body))

NeedsExtraStep(reason) == LS("NeedsExtraStep", Some(reason))

NeedsLogin == LS("NeedsLogin", None)

\* Result<LoginState, Error>, or the panic of an unwrap/expect
Ok(state) == [tag |-> "Ok", kind |-> state.kind, arg |-> state.arg]

Err(kind, arg) == [tag |-> "Err", kind |-> kind, arg |-> arg]

Panic(msg) == [tag |-> "Panic", kind |-> msg, arg |-> None]

(***************************************************************************)
(* Pure parts of login_email_pass.                                          *)
(***************************************************************************)
\* a plist integer that as_unsigned_integer() rejects
NotUInt == <<-1>>

\* an entry of the decrypted SPD's `t` dictionary: the filter_map closure yields
\* Some for it (every `?` of the closure passes)
EntryStored(e) ==
    /\ e.isdict
    /\ IsSome(e.token)
    /\ IF IsSome(e.expiry) THEN e.expiry[1] # NotUInt
       ELSE IsSome(e.duration) /\ e.duration[1] # NotUInt

\* a faulty variant of EntryExpiration: `duration` is looked at first
EntryExpirationDurationFirst(e, t) ==
    IF IsSome(e.duration) /\ e.duration[1] # NotUInt THEN Add(t, Secs(e.duration[1]))
    ELSE e.expiry[1]

EntryExpiration(e, t) ==
    IF IsSome(e.expiry) THEN e.expiry[1] ELSE Add(t, Secs(e.duration[1]))

\* the HashMap<String, FetchedToken> collected from the `t` dictionary
TokensOfSpd(dict, t) ==
    [s \in {k \in DOMAIN dict : EntryStored(dict[k])} |->
        [token |-> dict[s].token[1], expiration |-> EntryExpiration(dict[s], t)]]

\* a faulty variant of LoginStateOfAu: the two second-factor kinds exchanged
LoginStateOfAuExchanged(au) ==
    IF IsSome(au) /\ au[1].str
    THEN CASE au[1].s = "trustedDeviceSecondaryAuth" -> NeedsSMS2FA
           [] au[1].s = "secondaryAuth" -> NeedsDevice2FA
           [] OTHER -> NeedsExtraStep(au[1].s)
    ELSE LoggedIn

\* the LoginState returned for the `au` value of the response Status;
\* au is None, or Some of [str, s]: a plist string s, or another plist value
LoginStateOfAu(au) ==
    IF IsSome(au) /\ au[1].str
    THEN CASE au[1].s = "trustedDeviceSecondaryAuth" -> NeedsDevice2FA
           [] au[1].s = "secondaryAuth" -> NeedsSMS2FA
           [] OTHER -> NeedsExtraStep(au[1].s)
    ELSE LoggedIn

(***************************************************************************)
(* Pure parts of verify_2fa / verify_sms_2fa.  A decoded header is the      *)
(* sequence `parts` of its colon-separated fields; a field has its text     *)
(* and what parse::<u64>() makes of it.                                     *)
(***************************************************************************)
Txt(s) == [txt |-> s, num |-> None]

Num(label, n) == [txt |-> label, num |-> Some(n)]

\* parts.get(i) for the 0-based index i
PartsGet(parts, i) == IF i + 1 <= Len(parts) THEN Some(parts[i + 1]) ELSE None

OrElse(a, b) == IF IsSome(a) THEN a ELSE b

ThresholdFactors == <<40, 365, 24, 60, 60, 1000>>

ExpWidth == U64Limbs

\* 40 * 365 * 24 * 60 * 60 * 1000, computed in the integer type of exp
Threshold == Product(ThresholdFactors, ExpWidth)

ThresholdOverflows == ProductOverflows(ThresholdFactors, ExpWidth)

DefaultTtl == U64(<<31, 536, 000>>)

PetDefaultTtl == U64(<<300>>)

\* the ttl field of a GS/HB header in verify_2fa and in verify_sms_2fa
TtlField2fa(parts) == PartsGet(parts, 2)

TtlFieldSmsAtTwo(parts) == PartsGet(parts, 2)
TtlFieldSms(parts) == OrElse(PartsGet(parts, 3), PartsGet(parts, 2))

IsAbsolute(exp) == Less(Threshold, exp)

\* a faulty variant of TokenTime: every ttl taken as a duration in seconds
TokenTimeRelative(exp, t) == Add(t, Secs(exp))

\* `time` of the closure: ms since epoch, or a duration in seconds from now
TokenTime(exp, t) == IF IsAbsolute(exp) THEN exp ELSE Add(t, Secs(exp))

\* the closure of the map over the GS/HB headers panics on this header
HeaderPanics(parts, ttl) ==
    \/ IsSome(ttl) /\ IsNone(ttl[1].num)
    \/ Len(parts) < 2

HeaderExp(ttl) == IF IsSome(ttl) THEN ttl[1].num[1] ELSE DefaultTtl

HeaderToken(parts, ttl, t) ==
    [token |-> parts[2].txt, expiration |-> TokenTime(HeaderExp(ttl), t)]

\* collect() of (parts[0], FetchedToken) pairs into a HashMap: a later header
\* of the same id replaces an earlier one
RECURSIVE CollectTokens(_, _, _)
CollectTokens(hs, smsVariant, t) ==
    IF hs = <<>> THEN <<>>
    ELSE LET front == CollectTokens(SubSeq(hs, 1, Len(hs) - 1), smsVariant, t)
             parts == hs[Len(hs)]
             ttl   == IF smsVariant THEN TtlFieldSms(parts) ELSE TtlField2fa(parts)
             key   == parts[1].txt
         IN  [k \in DOMAIN front \cup {key} |->
                 IF k = key THEN HeaderToken(parts, ttl, t) ELSE front[k]]

AnyHeaderPanics(hs, smsVariant) ==
    \E i \in 1..Len(hs) :
        HeaderPanics(hs[i], IF smsVariant THEN TtlFieldSms(hs[i]) ELSE TtlField2fa(hs[i]))

\* parse_pet_header
PetPanics(parts) ==
    \/ Len(parts) < 2
    \/ Len(parts) >= 3 /\ IsNone(parts[3].num)

\* a faulty variant of PetTtl: the default of the GS/HB headers for the PET
PetTtlOneYear(parts) == IF Len(parts) >= 3 THEN parts[3].num[1] ELSE DefaultTtl

PetTtl(parts) == IF Len(parts) >= 3 THEN parts[3].num[1] ELSE PetDefaultTtl

PetToken(parts, t) ==
    [token |-> parts[2].txt, expiration |-> Add(t, Secs(PetTtl(parts)))]

Insert(map, key, value) ==
    [k \in DOMAIN map \cup {key} |-> IF k = key THEN value ELSE map[k]]

(***************************************************************************)
(* Bounds of the model and the inputs the environment chooses from.         *)
(***************************************************************************)
MaxGrants == 2

MaxTicks == 1

\* the clock at the start: 2023-11-14T22:13:20Z in ms since the epoch
Now0 == U64(<<1, 700, 000, 000, 000>>)

AbsFuture == U64(<<1, 700, 003, 600, 000>>)

TickSteps == {Secs(U64(<<301>>)), Secs(U64(<<3, 601>>))}

Usernames == {"alice"}

\* pre-hashed password bytes: a SHA-256 value, cut to three bytes
Passwords == {<<10, 255, 60>>, <<1, 2, 3>>}

AcName == "alice@icloud.com"

Entry(isdict, token, expiry, duration) ==
    [isdict |-> isdict, token |-> token, expiry |-> expiry, duration |-> duration]

\* shapes of one entry of the `t` dictionary of the g-th granting response
EntryShapes(name, g) ==
    { Entry(TRUE, Some(Tok(name, g)), Some(Now0), None),
      Entry(TRUE, Some(Tok(name, g)), Some(AbsFuture), Some(U64(<<300>>))),
      Entry(TRUE, Some(Tok(name, g)), None, Some(U64(<<3, 600>>))),
      Entry(TRUE, Some(Tok(name, g)), None, None),
      Entry(TRUE, Some(Tok(name, g)), Some(NotUInt), Some(U64(<<3, 600>>))),
      Entry(TRUE, None, Some(AbsFuture), None),
      Entry(FALSE, None, None, None) }

PetShapes(g) ==
    { Entry(TRUE, Some(Tok(PetId, g)), None, Some(U64(<<300>>))),
      Entry(TRUE, Some(Tok(PetId, g)), Some(Now0), None) }

\* the `t` value of a decrypted SPD: absent, or a dictionary over some services
TDicts(g) ==
    {None, Some(<<>>)}
    \cup {Some([s \in {HbId} |-> e]) : e \in EntryShapes(HbId, g)}
    \cup {Some([s \in {PetId} |-> e]) : e \in PetShapes(g)}
    \cup {Some([s \in {HbId, PetId} |-> IF s = HbId THEN e ELSE p]) :
            e \in {Entry(TRUE, Some(Tok(HbId, g)), None, Some(U64(<<3, 600>>))),
                   Entry(TRUE, Some(Tok(HbId, g)), None, None)},
            p \in PetShapes(g)}

AuValues ==
    { None,
      Some([str |-> TRUE, s |-> "trustedDeviceSecondaryAuth"]),
      Some([str |-> TRUE, s |-> "secondaryAuth"]),
      Some([str |-> TRUE, s |-> "repair"]),
      Some([str |-> TRUE, s |-> ""]),
      Some([str |-> FALSE, s |-> "secondaryAuth"]) }

\* what parse_response and check_error can make of a reply
FailedReplies ==
    { [kind |-> "transport"], [kind |-> "badplist"], [kind |-> "notdict"],
      [kind |-> "noresponse"],
      [kind |-> "status", ec |-> -20101, em |-> "Your Apple ID or password was incorrect."],
      [kind |-> "status", ec |-> -22406, em |-> "Too many attempts."] }

InitReplies ==
    FailedReplies
    \cup {[kind |-> "ok", sp |-> sp] : sp \in {None, Some("s2k"), Some("s2k_fo"), Some("S2K_FO")}}

Granting(g, m2ok, decrypts, acname, t, au) ==
    [kind |-> "ok", grant |-> g, m2ok |-> m2ok, decrypts |-> decrypts,
     acname |-> acname, t |-> t, au |-> au]

BothTokens(g) ==
    Some([s \in {HbId, PetId} |->
            IF s = HbId THEN Entry(TRUE, Some(Tok(HbId, g)), None, Some(U64(<<3, 600>>)))
            ELSE Entry(TRUE, Some(Tok(PetId, g)), None, Some(U64(<<300>>)))])

HbOnly(g) ==
    Some([s \in {HbId} |-> Entry(TRUE, Some(Tok(HbId, g)), None, Some(U64(<<3, 600>>)))])

\* replies to the complete request: every `t` with no `au`, every `au` with
\* three of the `t`, and the replies that make an unwrap/expect panic
CompleteReplies(g) ==
    FailedReplies
    \cup {Granting(g, FALSE, TRUE, Some(AcName), BothTokens(g), None),
          Granting(g, TRUE, FALSE, Some(AcName), BothTokens(g), None)}
    \cup {Granting(g, TRUE, TRUE, Some(AcName), t, None) : t \in TDicts(g)}
    \cup {Granting(g, TRUE, TRUE, Some(AcName), t, au) :
            t \in {None, BothTokens(g), HbOnly(g)}, au \in AuValues}
    \cup {Granting(g, TRUE, TRUE, None, t, None) : t \in {None, BothTokens(g)}}

\* the replies of an account with a second factor
SecondFactorReplies(g) ==
    {Granting(g, TRUE, TRUE, Some(AcName), t, au) :
        t \in {None, BothTokens(g)},
        au \in {Some([str |-> TRUE, s |-> "trustedDeviceSecondaryAuth"]),
                Some([str |-> TRUE, s |-> "secondaryAuth"])}}

One == FromNat(1, U64Limbs)

TtlFields ==
    { Num("3600", U64(<<3, 600>>)), Num("threshold", Threshold),
      Num("threshold+1", Add(Threshold, One)), Num("epoch-ms", AbsFuture) }

\* decoded X-Apple-GS-Token / X-Apple-HB-Token / X-Apple-PE-Token headers of
\* the g-th granting response
GsHeaders(g) ==
    {<<Txt(GsId), Txt(Tok(GsId, g))>>, <<Txt(GsId)>>,
     <<Txt(GsId), Txt(Tok(GsId, g)), Txt("soon")>>,
     <<Txt(GsId), Txt(Tok(GsId, g)), Num("3600", U64(<<3, 600>>)), Num("epoch-ms", AbsFuture)>>}
    \cup {<<Txt(GsId), Txt(Tok(GsId, g)), f>> : f \in TtlFields}

HbHeaders(g) ==
    {<<Txt(HbId), Txt(Tok(HbId, g)), Num("epoch-ms", Now0)>>,
     <<Txt(HbId), Txt(Tok(HbId, g)), Num("60", U64(<<60>>)), Num("epoch-ms", AbsFuture)>>}

PeHeaders(g) ==
    {<<Txt("12345"), Txt(Tok(PetId, g))>>, <<Txt("12345")>>,
     <<Txt("12345"), Txt(Tok(PetId, g)), Txt("never")>>,
     <<Txt("12345"), Txt(Tok(PetId, g)), Num("300", U64(<<300>>))>>,
     <<Txt("12345"), Txt(Tok(PetId, g)), Num("7200", U64(<<7, 200>>))>>}

Singles(S) == {<<>>} \cup {<<h>> : h \in S}

Reply(http, body, g, gs, hb, pe) ==
    [kind |-> "reply", http |-> http, body |-> body, grant |-> g,
     ec |-> IF body = "status" THEN -21669 ELSE 0,
     em |-> IF body = "status" THEN "Incorrect verification code." ELSE "",
     gs |-> gs, hb |-> hb, pe |-> pe]

\* replies to the validate / securitycode requests: the HTTP status, what the
\* body parses to (a plist with ec = 0, one with ec # 0, no plist; "unreadable"
\* when res.text() fails) and the headers
VerifyReplies(g) ==
    {[kind |-> "transport"]}
    \cup {Reply(hb[1], hb[2], g, <<>>, <<>>, None) :
            hb \in {<<200, "badplist">>, <<200, "status">>, <<401, "status">>, <<204, "ok">>,
                    <<401, "unreadable">>}}
    \cup {Reply(200, "ok", g, gs, <<>>, pe) :
            gs \in Singles(GsHeaders(g)),
            pe \in {None, Some(<<Txt("12345"), Txt(Tok(PetId, g))>>)}}
    \cup {Reply(200, "ok", g, gs, hb, pe) :
            gs \in {<<>>, << <<Txt(GsId), Txt(Tok(GsId, g))>> >>},
            hb \in Singles(HbHeaders(g)), pe \in Singles(PeHeaders(g))}

(***************************************************************************)
(* State.                                                                   *)
(***************************************************************************)
VARIABLES
    account,    \* AppleAccount: spd, username, tokens, hashed_password
    now,        \* SystemTime::now(), ms since the epoch
    ticks,      \* how often the clock has advanced
    grants,     \* how many granting responses the server has sent
    call,       \* the call in progress, at its suspension point
    ret,        \* what the last call returned, and the reply it consumed
    session,    \* LoginSession: None, or Some of held, username, needs_2fa
    anisette,   \* AnisetteClient: cached_headers, generated_at, and its provider
    mutex,      \* the tokio Mutex of the ArcAnisetteClient: None, or Some holder
    tasks,      \* the tasks sharing the ArcAnisetteClient, each at its position
    nac,        \* ValidationCtx in hand, and generate_validation_data in progress
    guard,      \* the tokio Mutex of LoginSession.account: None, or Some holder
    callers     \* the tasks calling into the LoginSession, each at its position

vars == <<account, now, ticks, grants, call, ret, session, anisette, mutex, tasks, nac,
         guard, callers>>

Idle == [op |-> "idle"]

\* no call has returned since the call in progress began
NoRet == [op |-> "none"]

\* AppleAccount::new_with_anisette
NewAccount ==
    [spd |-> None, username |-> None, tokens |-> <<>>, hashed_password |-> None]

\* what `?` / unwrap make of a reply that parse_response or check_error rejects
ReplyFailureBare(r) ==
    CASE r.kind = "transport" -> Err("ReqwestError", None)
      [] r.kind = "badplist" -> Err("PlistError", None)
      [] r.kind = "notdict" -> Err("Parse", None)
      [] r.kind = "noresponse" -> Panic("unwrap on None: Response")
      [] r.kind = "status" -> Err("AuthSrp", None)
ReplyFailure(r) ==
    CASE r.kind = "transport" -> Err("ReqwestError", None)
      [] r.kind = "badplist" -> Err("PlistError", None)
      [] r.kind = "notdict" -> Err("Parse", None)
      [] r.kind = "noresponse" -> Panic("unwrap on None: Response")
      [] r.kind = "status" -> Err("AuthSrpWithMessage", Some(<<r.ec, r.em>>))

(***************************************************************************)
(* login_email_pass, in its three stretches between suspension points.      *)
(* Each yields the account as it leaves it and `out`: the value returned,   *)
(* or None when the call goes on to its next request.                       *)
(***************************************************************************)
\* aniOk: self.get_anisette().await returned Ok (the AnisetteClient served or
\* generated headers); its failure is returned by `?` as ErrorGettingAnisette
LoginBegin(a, u, aniOk) ==
    [account |-> [a EXCEPT !.username = Some(u)],
     out |-> IF aniOk THEN None ELSE Some(Err("ErrorGettingAnisette", None))]

\* format!("{:02x}", b) of each byte, collected, into_bytes(): two ASCII codes a byte
HexDigit(n) == IF n < 10 THEN 48 + n ELSE 87 + n

RECURSIVE HexEncode(_)
HexEncode(bytes) ==
    IF bytes = <<>> THEN <<>>
    ELSE <<HexDigit(Head(bytes) \div 16), HexDigit(Head(bytes) % 16)>> \o HexEncode(Tail(bytes))

\* res.get("sp").and_then(|v| v.as_string()).unwrap_or("s2k")
SelectedProtocol(r) == IF IsSome(r.sp) THEN r.sp[1] ELSE "s2k"

\* a faulty variant of PasswordForSrp: every variant but s2k is hex-encoded
PasswordForSrpUnlessS2k(hashed_password, selected_protocol) ==
    IF selected_protocol # "s2k" THEN HexEncode(hashed_password) ELSE hashed_password

\* the PBKDF2 password input
PasswordForSrp(hashed_password, selected_protocol) ==
    IF selected_protocol = "s2k_fo" THEN HexEncode(hashed_password) ELSE hashed_password

LoginInit(a, p, r) ==
    IF r.kind # "ok" THEN [account |-> a, out |-> Some(ReplyFailure(r))]
    ELSE [account |-> [a EXCEPT !.hashed_password = Some(p)], out |-> None]

\* self.tokens after the `if let Some(Value::Dictionary(dict)) = decoded_spd.get("t")`
StoreSpdTokens(a, r, t) ==
    IF IsSome(r.t) THEN [a EXCEPT !.tokens = TokensOfSpd(r.t[1], t)] ELSE a

StoreSpd(a, r) ==
    [a EXCEPT !.username = r.acname,
              !.spd = Some([grant |-> r.grant, acname |-> r.acname[1]])]

LoginComplete(a, r, t) ==
    IF r.kind # "ok" THEN [account |-> a, out |-> Some(ReplyFailure(r))]
    ELSE IF ~r.m2ok THEN [account |-> a, out |-> Some(Panic("verify_server"))]
    ELSE IF ~r.decrypts THEN [account |-> a, out |-> Some(Panic("decrypt_cbc"))]
    ELSE IF IsNone(r.acname)
         THEN [account |-> StoreSpdTokens(a, r, t), out |-> Some(Panic("No account name?"))]
    ELSE [account |-> StoreSpd(StoreSpdTokens(a, r, t), r),
          out |-> Some(Ok(LoginStateOfAu(r.au)))]

(***************************************************************************)
(* The 2FA operations.  Each yields the account as it leaves it and the      *)
(* value returned.                                                          *)
(***************************************************************************)
\* build_2fa_headers: None when the headers are built
Build2faHeaders(a, aniOk) ==
    IF IsNone(a.spd) THEN Some(Panic("unwrap on None: spd"))
    ELSE IF ~aniOk THEN Some(Err("ErrorGettingAnisette", None))
    ELSE None

VerifyBody(phone_id, code) ==
    [phone_number |-> phone_id, mode |-> "sms", security_code |-> code]

\* body.security_code = Some(VerifyCode { code }): the body verify_sms_2fa sends
SmsRequestBodyForPhoneOne(body, code) == VerifyBody(1, Some(code))
SmsRequestBody(body, code) == [body EXCEPT !.security_code = Some(code)]

\* r.kind is "transport", or "http" with the status of the reply
\* a faulty variant of Send2faToDevices: the state stays NeedsDevice2FA
Send2faToDevicesUnchanged(a, aniOk, r) ==
    IF IsSome(Build2faHeaders(a, aniOk)) THEN Build2faHeaders(a, aniOk)[1]
    ELSE IF r.kind = "transport" THEN Err("ReqwestError", None)
    ELSE IF ~(r.http >= 200 /\ r.http <= 299) THEN Err("AuthSrp", None)
    ELSE Ok(NeedsDevice2FA)

Send2faToDevices(a, aniOk, r) ==
    IF IsSome(Build2faHeaders(a, aniOk)) THEN Build2faHeaders(a, aniOk)[1]
    ELSE IF r.kind = "transport" THEN Err("ReqwestError", None)
    ELSE IF ~(r.http >= 200 /\ r.http <= 299) THEN Err("AuthSrp", None)
    ELSE Ok(Needs2FAVerification)

SendSms2faToDevices(a, phone_id, aniOk, r) ==
    IF IsSome(Build2faHeaders(a, aniOk)) THEN Build2faHeaders(a, aniOk)[1]
    ELSE IF r.kind = "transport" THEN Err("ReqwestError", None)
    ELSE IF ~(r.http >= 200 /\ r.http <= 299) THEN Err("AuthSrp", None)
    ELSE Ok(NeedsSMS2FAVerification(VerifyBody(phone_id, None)))

SendReplies == {[kind |-> "transport"]} \cup {[kind |-> "http", http |-> h] : h \in {200, 204, 401}}

\* the tail shared by verify_2fa and verify_sms_2fa: self.tokens = ...collect(),
\* then the X-Apple-PE-Token header
\* a faulty variant of StoreHeaderTokens: the header tokens are added to the store
StoreHeaderTokensAdded(a, r, smsVariant, t) ==
    IF AnyHeaderPanics(r.gs \o r.hb, smsVariant)
    THEN [account |-> a, out |-> Panic("Bad expiration format?")]
    ELSE LET collected == CollectTokens(r.gs \o r.hb, smsVariant, t)
             a1 == [a EXCEPT !.tokens = [k \in DOMAIN @ \cup DOMAIN collected |->
                                            IF k \in DOMAIN collected THEN collected[k] ELSE @[k]]]
         IN  IF IsNone(r.pe) THEN [account |-> a1, out |-> Ok(NeedsLogin)]
             ELSE IF PetPanics(r.pe[1]) THEN [account |-> a1, out |-> Panic("Bad pet format")]
             ELSE [account |-> [a1 EXCEPT !.tokens = Insert(a1.tokens, PetId, PetToken(r.pe[1], t))],
                   out |-> Ok(LoggedIn)]

StoreHeaderTokens(a, r, smsVariant, t) ==
    IF AnyHeaderPanics(r.gs \o r.hb, smsVariant)
    THEN [account |-> a, out |-> Panic("Bad expiration format?")]
    ELSE LET a1 == [a EXCEPT !.tokens = CollectTokens(r.gs \o r.hb, smsVariant, t)]
         IN  IF IsNone(r.pe) THEN [account |-> a1, out |-> Ok(NeedsLogin)]
             ELSE IF PetPanics(r.pe[1]) THEN [account |-> a1, out |-> Panic("Bad pet format")]
             ELSE [account |-> [a1 EXCEPT !.tokens = Insert(a1.tokens, PetId, PetToken(r.pe[1], t))],
                   out |-> Ok(LoggedIn)]

Verify2fa(a, aniOk, r, t) ==
    IF IsSome(Build2faHeaders(a, aniOk)) THEN [account |-> a, out |-> Build2faHeaders(a, aniOk)[1]]
    ELSE IF r.kind = "transport" \/ r.body = "unreadable"
    THEN [account |-> a, out |-> Err("ReqwestError", None)]
    ELSE IF r.body = "badplist" THEN [account |-> a, out |-> Err("PlistError", None)]
    ELSE IF r.ec # 0 THEN [account |-> a, out |-> Err("AuthSrpWithMessage", Some(<<r.ec, r.em>>))]
    ELSE StoreHeaderTokens(a, r, FALSE, t)

VerifySms2fa(a, aniOk, r, t) ==
    IF IsSome(Build2faHeaders(a, aniOk)) THEN [account |-> a, out |-> Build2faHeaders(a, aniOk)[1]]
    ELSE IF r.kind = "transport" THEN [account |-> a, out |-> Err("ReqwestError", None)]
    ELSE IF r.http # 200
    THEN [account |-> a,
          out |-> IF r.body = "unreadable" THEN Err("ReqwestError", None)
                  ELSE Err("Bad2faCode", None)]
    ELSE StoreHeaderTokens(a, r, TRUE, t)

\* the reply is one whose headers the call stores
Verify2faStores(r) == r.kind = "reply" /\ r.body = "ok"

VerifySmsStores(r) == r.kind = "reply" /\ r.http = 200

(***************************************************************************)
(* Reads of the token store.                                                *)
(***************************************************************************)
Lookup(toks, id) == IF id \in DOMAIN toks THEN Some(toks[id]) ELSE None

\* get_pet: the FetchedToken whose token string it returns
GetPet(a) == Lookup(a.tokens, PetId)

\* data.expiration.elapsed().is_err(): the expiration is later than now
NotElapsed(e, t) == Less(t, e.expiration)

\* get_token up to the re-login: Some(what it returns), or None when it goes
\* on to login_email_pass
GetTokenEarlyAbsentRelogs(a, id, t) ==
    IF id \in DOMAIN a.tokens /\ NotElapsed(a.tokens[id], t) THEN Some(Lookup(a.tokens, id))
    ELSE IF IsNone(a.username) \/ IsNone(a.hashed_password) THEN Some(None)
    ELSE None
GetTokenEarly(a, id, t) ==
    IF DOMAIN a.tokens # {} /\ id \notin DOMAIN a.tokens THEN Some(None)
    ELSE IF DOMAIN a.tokens # {} /\ NotElapsed(a.tokens[id], t) THEN Some(Lookup(a.tokens, id))
    ELSE IF IsNone(a.username) \/ IsNone(a.hashed_password) THEN Some(None)
    ELSE None

\* a faulty variant of GetTokenAfterLogin: the store is read whatever r is
GetTokenAfterLoginUnchecked(r, a, id) == Lookup(a.tokens, id)

\* get_token after the re-login returned r
GetTokenAfterLogin(r, a, id) ==
    IF r.tag = "Ok" /\ r.kind = "LoggedIn" THEN Lookup(a.tokens, id) ELSE None

(***************************************************************************)
(* The login drivers' matches on the LoginState they are handed.            *)
(***************************************************************************)
Goes(pc, body) == [done |-> FALSE, pc |-> pc, body |-> body, out |-> None]

Ends(r) == [done |-> TRUE, pc |-> "done", body |-> None, out |-> Some(r)]

OkValue(kind, arg) == [tag |-> "Ok", kind |-> kind, arg |-> arg]

\* a faulty variant of LwaMatch: NeedsExtraStep fails whatever the store holds
LwaMatchPetIgnored(st, a) ==
    CASE st.kind = "Needs2FAVerification" -> Goes("verify_2fa", None)
      [] st.kind \in {"NeedsSMS2FA", "NeedsDevice2FA"} -> Goes("send_2fa", None)
      [] st.kind = "NeedsSMS2FAVerification" -> Goes("verify_sms", st.arg)
      [] st.kind = "NeedsLogin" -> Goes("relogin", None)
      [] st.kind = "LoggedIn" -> Ends(OkValue("AppleAccount", None))
      [] st.kind = "NeedsExtraStep" -> Ends(Err("ExtraStep", st.arg))

\* the loop body of login_with_anisette
LwaMatch(st, a) ==
    CASE st.kind = "Needs2FAVerification" -> Goes("verify_2fa", None)
      [] st.kind \in {"NeedsSMS2FA", "NeedsDevice2FA"} -> Goes("send_2fa", None)
      [] st.kind = "NeedsSMS2FAVerification" -> Goes("verify_sms", st.arg)
      [] st.kind = "NeedsLogin" -> Goes("relogin", None)
      [] st.kind = "LoggedIn" -> Ends(OkValue("AppleAccount", None))
      [] st.kind = "NeedsExtraStep" ->
            IF IsSome(GetPet(a)) THEN Ends(OkValue("AppleAccount", None))
            ELSE Ends(Err("ExtraStep", st.arg))

\* a faulty variant of LoginStartMatch: an extra step never needs a PET
LoginStartMatchWithoutPet(st, a) ==
    CASE st.kind = "LoggedIn" -> Ends(OkValue("LoginSession", Some(FALSE)))
      [] st.kind = "Needs2FAVerification" -> Ends(OkValue("LoginSession", Some(TRUE)))
      [] st.kind \in {"NeedsDevice2FA", "NeedsSMS2FA"} -> Goes("send_2fa", None)
      [] st.kind = "NeedsSMS2FAVerification" -> Ends(OkValue("LoginSession", Some(TRUE)))
      [] st.kind = "NeedsExtraStep" -> Ends(OkValue("LoginSession", Some(FALSE)))
      [] st.kind = "NeedsLogin" ->
            Ends(Err("GenericError", Some(<<"Login failed - bad credentials", "">>)))

\* the match of login_start; an Ok value carries needs_2fa
LoginStartMatch(st, a) ==
    CASE st.kind = "LoggedIn" -> Ends(OkValue("LoginSession", Some(FALSE)))
      [] st.kind = "Needs2FAVerification" -> Ends(OkValue("LoginSession", Some(TRUE)))
      [] st.kind \in {"NeedsDevice2FA", "NeedsSMS2FA"} -> Goes("send_2fa", None)
      [] st.kind = "NeedsSMS2FAVerification" -> Ends(OkValue("LoginSession", Some(TRUE)))
      [] st.kind = "NeedsExtraStep" ->
            IF IsSome(GetPet(a)) THEN Ends(OkValue("LoginSession", Some(FALSE)))
            ELSE Ends(Err("GenericError", Some(<<"Login requires extra step", st.arg[1]>>)))
      [] st.kind = "NeedsLogin" ->
            Ends(Err("GenericError", Some(<<"Login failed - bad credentials", "">>)))

\* the match of submit_2fa
Submit2faMatch(st, a) ==
    CASE st.kind = "LoggedIn" -> Ends(OkValue("bool", Some(TRUE)))
      [] st.kind = "NeedsExtraStep" -> Ends(OkValue("bool", Some(IsSome(GetPet(a)))))
      [] OTHER -> Ends(OkValue("bool", Some(FALSE)))

\* map_err of login_start and submit_2fa
Wrapped(r, what) ==
    IF r.tag = "Err" THEN Err("GenericError", Some(<<what, r.kind>>)) ELSE r

(***************************************************************************)
(* Calls.  A frame is the call in progress: its operation, the suspension   *)
(* point it waits at, its arguments and what it has done so far.            *)
(***************************************************************************)
\* the counters of a frame stop counting at MaxCount
MaxCount == 4

Counted(n) == IF n < MaxCount THEN n + 1 ELSE n

Frame(op, u, p) ==
    [op |-> op, pc |-> "start", u |-> u, p |-> p, svc |-> "", body |-> None,
     logins |-> 0, reqs |-> 0, expired |-> FALSE, observed |-> None, before |-> None,
     asked |-> None, pending |-> None, verified |-> None,
     res |-> None, password_for_srp |-> None]

\* the SPD and the token store of account a
Held(a) == [spd |-> a.spd, tokens |-> a.tokens]

\* what login_email_pass returned to its caller, who held f.before when calling
LoginRet(f, r, reply, stage) ==
    [op |-> f.op, tag |-> r.tag, kind |-> r.kind, arg |-> r.arg, at |-> now,
     reply |-> reply, stage |-> stage, before |-> f.before, reqs |-> f.reqs]

\* args: what the caller passed; sent: the body of the request, when one was sent
ApiRet(op, r, reply, args, sent) ==
    [op |-> op, tag |-> r.tag, kind |-> r.kind, arg |-> r.arg, at |-> now,
     reply |-> reply, args |-> args, sent |-> sent, before |-> Some(Held(account))]

TokenRet(op, tag, id, entry, f, attempt, reply) ==
    [op |-> op, tag |-> tag, svc |-> id, entry |-> entry,
     value |-> IF IsSome(entry) THEN Some(entry[1].token) ELSE None,
     at |-> now, logins |-> f.logins, expired |-> f.expired,
     attempt |-> attempt, reply |-> reply]

\* asked: the LoginState login_email_pass returned last; pending: what
\* send_sms_2fa_to_devices returned since; verified: the verify call made since
DriverRet(f, r, observed, reply) ==
    [op |-> f.op, tag |-> r.tag, kind |-> r.kind, arg |-> r.arg, at |-> now,
     observed |-> observed, logins |-> f.logins, reqs |-> f.reqs, reply |-> reply,
     asked |-> f.asked, pending |-> f.pending, verified |-> f.verified]

\* failed: the message of the latest error a finish on the session returned
NewSession(f, needs_2fa) ==
    [held |-> TRUE, username |-> f.u, password_hash |-> f.p, needs_2fa |-> needs_2fa,
     asked |-> f.asked, failed |-> ""]

\* a driver f is handed r by the operation it awaited and matches on it (m)
Drive(f, r, m, reply) ==
    LET observed == IF r.tag = "Ok" THEN Some(LS(r.kind, r.arg)) ELSE f.observed
    IN  IF m.done
        THEN /\ call' = Idle
             /\ ret' = DriverRet(f, m.out[1], observed, reply)
             /\ session' = IF f.op = "login_start" /\ m.out[1].tag = "Ok"
                           THEN Some(NewSession(f, m.out[1].arg[1]))
                           ELSE session
        ELSE /\ call' = [f EXCEPT !.pc = m.pc, !.body = m.body, !.observed = observed]
             /\ UNCHANGED <<ret, session>>

\* the driver f is handed r by login_email_pass
Asked(f, r) ==
    IF r.tag = "Ok" THEN [f EXCEPT !.asked = Some(r.kind), !.pending = None, !.verified = None]
    ELSE f

\* the driver f awaited the operation at f.pc, which returned out
Awaited(f, out) ==
    CASE f.pc \in {"verify_2fa", "verify_sms"} ->
              [f EXCEPT !.verified = Some([op |-> f.pc, body |-> f.body])]
      [] f.pc = "send_sms" /\ out.tag = "Ok" -> [f EXCEPT !.pending = out.arg]
      [] OTHER -> f

(***************************************************************************)
(* logout_all and update_postdata (icloud-auth/src/client.rs).  The frame   *)
(* of logout_all keeps `services`, the vector of the loop, `logout`, the    *)
(* service of the update_postdata in progress, and `posted`: the postdata   *)
(* requests sent so far, each with its event, the services it lists and     *)
(* the status it was answered with.                                         *)
(***************************************************************************)
LogoutFrame ==
    [op |-> "logout_all", pc |-> "start", u |-> "", p |-> <<>>, logins |-> 0, reqs |-> 0,
     before |-> None, res |-> None, password_for_srp |-> None,
     services |-> <<"icloud", "imessage", "facetime">>, logout |-> "", looping |-> TRUE,
     posted |-> <<>>]

LogoutRet(f, r) ==
    [op |-> f.op, tag |-> r.tag, kind |-> r.kind, arg |-> r.arg, at |-> now,
     posted |-> f.posted, logins |-> f.logins, reqs |-> f.reqs]

\* logout_all returns r
LogoutEnds(f, r) ==
    /\ call' = Idle
    /\ ret' = LogoutRet(f, r)

\* a faulty variant of NextPostdata: the service signed out stays in the list
NextPostdataKeepingService(f) ==
    IF f.looping /\ Len(f.services) > 0 /\ f.logout # f.services[1]
    THEN Some([f EXCEPT !.logout = f.services[1]])
    ELSE IF f.looping /\ Len(f.services) > 1
    THEN Some([f EXCEPT !.logout = f.services[2], !.services = Tail(@)])
    ELSE IF f.looping THEN Some([f EXCEPT !.looping = FALSE, !.logout = "all", !.services = <<>>])
    ELSE None

\* the next update_postdata of logout_all: `services.remove(0)` while the
\* vector is not empty, then "all"; None once "all" has been posted
NextPostdata(f) ==
    IF f.looping /\ Len(f.services) > 0
    THEN Some([f EXCEPT !.logout = f.services[1], !.services = Tail(@)])
    ELSE IF f.looping THEN Some([f EXCEPT !.looping = FALSE, !.logout = "all"])
    ELSE None

\* update_postdata once get_token has returned tok (Some of a panic when the
\* re-login panicked): the headers are built and the request is sent
PostdataAfterToken(f, a, tok) ==
    IF IsNone(tok) THEN LogoutEnds(f, Err("HappyBirthdayError", None))
    ELSE IF tok[1] \in [tag : {"Panic"}, kind : STRING, arg : {None}] THEN LogoutEnds(f, tok[1])
    ELSE IF IsNone(a.spd) THEN LogoutEnds(f, Panic("unwrap on None: spd"))
    ELSE /\ call' = [f EXCEPT !.pc = "postdata", !.reqs = Counted(@),
                              !.posted = Append(@, [event |-> "signout-" \o f.logout,
                                                    services |-> f.services,
                                                    status |-> None])]
         /\ ret' = NoRet

\* login_email_pass returns r to the frame f that called it, leaving account a
Resume(f, r, a, reply, stage) ==
    /\ account' = a
    /\ CASE f.op = "login_email_pass" ->
              /\ call' = Idle
              /\ ret' = LoginRet(f, r, reply, stage)
              /\ UNCHANGED session
         [] f.op = "get_token" ->
              /\ call' = Idle
              /\ ret' = TokenRet(f.op, IF r.tag = "Panic" THEN "Panic" ELSE "Ok", f.svc,
                                 GetTokenAfterLogin(r, a, f.svc), f, Some(r), reply)
              /\ UNCHANGED session
         [] f.op = "login_with_anisette" ->
              Drive(Asked(f, r), r, IF r.tag = "Ok" THEN LwaMatch(LS(r.kind, r.arg), a) ELSE Ends(r), reply)
         [] f.op = "login_start" ->
              Drive(Asked(f, r), r, IF r.tag = "Ok" THEN LoginStartMatch(LS(r.kind, r.arg), a)
                          ELSE Ends(Wrapped(r, "Login failed")), reply)
         [] f.op = "logout_all" ->
              /\ PostdataAfterToken(f, a, IF r.tag = "Panic" THEN Some(r)
                                          ELSE GetTokenAfterLogin(r, a, HbId))
              /\ UNCHANGED session

\* frame f calls login_email_pass(f.u, f.p) on account a
Begin(f, a, aniOk) ==
    LET eff == LoginBegin(a, f.u, aniOk)
        g   == [f EXCEPT !.logins = Counted(@)]
    IN  IF IsNone(eff.out)
        THEN /\ account' = eff.account
             /\ call' = [g EXCEPT !.pc = "init", !.reqs = Counted(@)]
             /\ ret' = NoRet
             /\ UNCHANGED session
        ELSE Resume(g, eff.out[1], eff.account, None, "anisette")

(***************************************************************************)
(* Actions: login_email_pass.                                               *)
(***************************************************************************)
LoginEmailPass(u, p, aniOk) ==
    /\ call = Idle
    /\ Begin([Frame("login_email_pass", u, p) EXCEPT !.before = Some(Held(account))],
             account, aniOk)
    /\ UNCHANGED <<now, ticks, anisette, mutex, tasks, grants, nac, guard, callers>>

InitReply(r) ==
    /\ call # Idle /\ call.pc = "init"
    /\ LET eff == LoginInit(account, call.p, r)
       IN  IF IsNone(eff.out)
           THEN /\ account' = eff.account
                /\ call' = [call EXCEPT !.pc = "complete", !.reqs = Counted(@), !.res = Some(r),
                                         !.password_for_srp =
                                             Some(PasswordForSrp(call.p, SelectedProtocol(r)))]
                /\ UNCHANGED <<ret, session>>
           ELSE Resume(call, eff.out[1], eff.account, Some(r), "init")
    /\ UNCHANGED <<now, ticks, anisette, mutex, tasks, grants, nac, guard, callers>>

\* the granting response r is the server's next grant, or its latest once more
Offered(r) == r.grant >= 1 /\ r.grant <= MaxGrants /\ r.grant \in {grants, grants + 1}

CompleteReply(r) ==
    /\ call # Idle /\ call.pc = "complete"
    /\ r.kind = "ok" => Offered(r)
    /\ LET eff == LoginComplete(account, r, now)
       IN  Resume(call, eff.out[1], eff.account, Some(r), "complete")
    /\ grants' = IF r.kind = "ok" THEN r.grant ELSE grants
    /\ UNCHANGED <<now, ticks, anisette, mutex, tasks, nac, guard, callers>>

\* the caller drops the future of the call at its suspension point
Abandon ==
    /\ call # Idle
    /\ call' = Idle
    /\ ret' = [op |-> call.op, tag |-> "Abandoned", at |-> now, stage |-> call.pc,
               before |-> call.before]
    /\ UNCHANGED <<account, now, ticks, anisette, mutex, tasks, grants, session, nac, guard, callers>>

Tick(d, limit) ==
    /\ ticks < limit
    /\ now' = Add(now, d)
    /\ ticks' = ticks + 1
    /\ UNCHANGED <<account, grants, call, ret, session, anisette, mutex, tasks, nac, guard, callers>>

(***************************************************************************)
(* Actions: the 2FA operations and the reads, called on the account.        *)
(***************************************************************************)
Sent(a, aniOk) == IF IsNone(Build2faHeaders(a, aniOk)) THEN 1 ELSE 0

Send2fa(aniOk, r) ==
    /\ call = Idle
    /\ ret' = ApiRet("send_2fa_to_devices", Send2faToDevices(account, aniOk, r), Some(r),
                     None, None)
    /\ UNCHANGED <<account, now, ticks, anisette, mutex, tasks, grants, call, session, nac, guard, callers>>

SendSms2fa(phone_id, aniOk, r) ==
    /\ call = Idle
    /\ ret' = ApiRet("send_sms_2fa_to_devices",
                     SendSms2faToDevices(account, phone_id, aniOk, r), Some(r),
                     Some(<<phone_id>>),
                     IF Sent(account, aniOk) = 1 THEN Some(VerifyBody(phone_id, None)) ELSE None)
    /\ UNCHANGED <<account, now, ticks, anisette, mutex, tasks, grants, call, session, nac, guard, callers>>

\* the reply r may be consumed: a storing reply is one the server offers
MayStore(stores, r) == stores => Offered(r)

Granted(stores, a, aniOk, r) ==
    IF stores /\ IsNone(Build2faHeaders(a, aniOk)) THEN r.grant ELSE grants

Verify2faCall(aniOk, r) ==
    /\ call = Idle
    /\ MayStore(Verify2faStores(r), r)
    /\ LET eff == Verify2fa(account, aniOk, r, now)
       IN  /\ account' = eff.account
           /\ ret' = ApiRet("verify_2fa", eff.out, Some(r), None, None)
    /\ grants' = Granted(Verify2faStores(r), account, aniOk, r)
    /\ UNCHANGED <<now, ticks, anisette, mutex, tasks, call, session, nac, guard, callers>>

VerifySms2faCall(code, body, aniOk, r) ==
    /\ call = Idle
    /\ MayStore(VerifySmsStores(r), r)
    /\ LET eff == VerifySms2fa(account, aniOk, r, now)
       IN  /\ account' = eff.account
           /\ ret' = ApiRet("verify_sms_2fa", eff.out, Some(r), Some(<<code, body>>),
                            IF Sent(account, aniOk) = 1 THEN Some(SmsRequestBody(body, code))
                            ELSE None)
    /\ grants' = Granted(VerifySmsStores(r), account, aniOk, r)
    /\ UNCHANGED <<now, ticks, anisette, mutex, tasks, call, session, nac, guard, callers>>

GetPetCall ==
    /\ call = Idle
    /\ ret' = TokenRet("get_pet", "Ok", PetId, GetPet(account), Frame("get_pet", "", ""), None, None)
    /\ UNCHANGED <<account, now, ticks, anisette, mutex, tasks, grants, call, session, nac, guard, callers>>

GetTokenCall(id, aniOk) ==
    /\ call = Idle
    /\ LET early == GetTokenEarly(account, id, now)
           f == [Frame("get_token", "", "") EXCEPT
                    !.svc = id,
                    !.expired = id \in DOMAIN account.tokens
                                /\ ~NotElapsed(account.tokens[id], now)]
       IN  IF IsSome(early)
           THEN /\ ret' = TokenRet("get_token", "Ok", id, early[1], f, None, None)
                /\ UNCHANGED <<account, call, session>>
           ELSE Begin([f EXCEPT !.u = account.username[1], !.p = account.hashed_password[1]],
                      account, aniOk)
    /\ UNCHANGED <<now, ticks, anisette, mutex, tasks, grants, nac, guard, callers>>

(***************************************************************************)
(* Actions: logout_all.                                                     *)
(***************************************************************************)
\* update_postdata(device_name, Some(f.logout), &f.services) up to its request:
\* get_anisette, then get_token("com.apple.gs.idms.hb"), which may log in again
UpdatePostdata(f, a, aniOk) ==
    IF ~aniOk
    THEN /\ account' = a
         /\ LogoutEnds(f, Err("ErrorGettingAnisette", None))
         /\ UNCHANGED session
    ELSE LET early == GetTokenEarly(a, HbId, now)
         IN  IF IsSome(early)
             THEN /\ account' = a
                  /\ PostdataAfterToken(f, a, early[1])
                  /\ UNCHANGED session
             ELSE Begin([f EXCEPT !.u = a.username[1], !.p = a.hashed_password[1]], a, aniOk)

LogoutAll(aniOk) ==
    /\ call = Idle
    /\ UpdatePostdata(NextPostdata(LogoutFrame)[1], account, aniOk)
    /\ UNCHANGED <<now, ticks, anisette, mutex, tasks, grants, nac, guard, callers>>

\* the postdata request of logout_all is answered by r, and with a success
\* status the next update_postdata begins
PostdataReply(aniOk, r) ==
    /\ call # Idle /\ call.op = "logout_all" /\ call.pc = "postdata"
    /\ LET n == Len(call.posted)
           f == [call EXCEPT !.posted[n].status =
                                Some(IF r.kind = "transport" THEN 0 ELSE r.http)]
       IN  IF r.kind = "transport"
           THEN LogoutEnds(f, Err("ReqwestError", None)) /\ UNCHANGED <<account, session>>
           ELSE IF ~(r.http >= 200 /\ r.http <= 299)
           THEN LogoutEnds(f, Err("AuthSrp", None)) /\ UNCHANGED <<account, session>>
           ELSE IF IsNone(NextPostdata(f))
           THEN LogoutEnds(f, OkValue("()", None)) /\ UNCHANGED <<account, session>>
           ELSE UpdatePostdata(NextPostdata(f)[1], account, aniOk)
    /\ UNCHANGED <<now, ticks, anisette, mutex, tasks, grants, nac, guard, callers>>

(***************************************************************************)
(* Actions: the login drivers.                                              *)
(***************************************************************************)
LoginWithAnisette(u, p, aniOk) ==
    /\ call = Idle
    /\ session = None
    /\ Begin(Frame("login_with_anisette", u, p), NewAccount, aniOk)
    /\ UNCHANGED <<now, ticks, anisette, mutex, tasks, grants, nac, guard, callers>>

\* the replies login_with_anisette can get at its suspension point
LwaReplies(g) ==
    IF call = Idle \/ call.op # "login_with_anisette" THEN {}
    ELSE IF call.pc \in {"send_2fa", "send_sms"} THEN SendReplies
    ELSE IF call.pc \in {"verify_2fa", "verify_sms"} THEN VerifyReplies(g)
    ELSE IF call.pc = "relogin" THEN {[kind |-> "none"]}
    ELSE {}

\* a faulty variant of LwaAwaited: the SMS is requested for phone 2
LwaAwaitedPhoneTwo(a, pc, aniOk, r, t) ==
    CASE pc = "send_2fa" -> [account |-> a, out |-> Send2faToDevices(a, aniOk, r)]
      [] pc = "send_sms" -> [account |-> a, out |-> SendSms2faToDevices(a, 2, aniOk, r)]
      [] pc = "verify_sms" -> VerifySms2fa(a, aniOk, r, t)
      [] pc = "verify_2fa" -> Verify2fa(a, aniOk, r, t)

\* the awaited operation of login_with_anisette at call.pc gets its reply r
LwaAwaited(a, pc, aniOk, r, t) ==
    CASE pc = "send_2fa" -> [account |-> a, out |-> Send2faToDevices(a, aniOk, r)]
      [] pc = "send_sms" -> [account |-> a, out |-> SendSms2faToDevices(a, 1, aniOk, r)]
      [] pc = "verify_sms" -> VerifySms2fa(a, aniOk, r, t)
      [] pc = "verify_2fa" -> Verify2fa(a, aniOk, r, t)

LwaStores(pc, r) ==
    \/ pc = "verify_sms" /\ VerifySmsStores(r)
    \/ pc = "verify_2fa" /\ Verify2faStores(r)

\* login_with_anisette goes on from its suspension point call.pc
LwaStep(aniOk, r) ==
    /\ call # Idle /\ call.op = "login_with_anisette"
    /\ IF call.pc = "relogin"
       THEN Begin(call, account, aniOk) /\ grants' = grants
       ELSE LET eff == LwaAwaited(account, call.pc, aniOk, r, now)
                f == Awaited([call EXCEPT !.reqs = IF Sent(account, aniOk) = 1 THEN Counted(@) ELSE @],
                             eff.out)
            IN  /\ MayStore(LwaStores(call.pc, r), r)
                /\ account' = eff.account
                /\ Drive(f, eff.out,
                         IF eff.out.tag # "Ok" THEN Ends(eff.out)
                         ELSE IF call.pc = "send_2fa" THEN Goes("send_sms", None)
                         ELSE LwaMatch(LS(eff.out.kind, eff.out.arg), eff.account),
                         Some(r))
                /\ grants' = Granted(LwaStores(call.pc, r), account, aniOk, r)
    /\ UNCHANGED <<now, ticks, anisette, mutex, tasks, nac, guard, callers>>

LoginStart(u, p, aniOk) ==
    /\ call = Idle
    /\ session = None
    /\ Begin(Frame("login_start", u, p), NewAccount, aniOk)
    /\ UNCHANGED <<now, ticks, anisette, mutex, tasks, grants, nac, guard, callers>>

\* login_start at its send_2fa_to_devices: the result is logged, not returned
LoginStartStep(aniOk, r) ==
    /\ call # Idle /\ call.op = "login_start" /\ call.pc = "send_2fa"
    /\ LET res == Send2faToDevices(account, aniOk, r)
           f == [call EXCEPT !.reqs = IF Sent(account, aniOk) = 1 THEN Counted(@) ELSE @]
       IN  Drive(f, res, IF res.tag = "Panic" THEN Ends(res)
                         ELSE Ends(OkValue("LoginSession", Some(TRUE))), Some(r))
    /\ UNCHANGED <<account, now, ticks, anisette, mutex, tasks, grants, nac, guard, callers>>

Submit2fa(aniOk, r) ==
    /\ call = Idle
    /\ IsSome(session)
    /\ LET f == Awaited([Frame("submit_2fa", "", "") EXCEPT !.reqs = Sent(account, aniOk),
                                                         !.pc = "verify_2fa",
                                                         !.asked = session[1].asked], None)
       IN  IF ~session[1].held
           THEN /\ ret' = DriverRet(Frame("submit_2fa", "", ""),
                                    Err("GenericError", Some(<<"No active session", "">>)), None, None)
                /\ UNCHANGED <<account, grants, call, session>>
           ELSE LET eff == Verify2fa(account, aniOk, r, now)
                    res == Wrapped(eff.out, "2FA verification failed")
                IN  /\ MayStore(Verify2faStores(r), r)
                    /\ account' = eff.account
                    /\ Drive(f, eff.out, IF res.tag = "Ok"
                                         THEN Submit2faMatch(LS(res.kind, res.arg), eff.account)
                                         ELSE Ends(res), Some(r))
                    /\ grants' = Granted(Verify2faStores(r), account, aniOk, r)
    /\ UNCHANGED <<now, ticks, anisette, mutex, tasks, nac, guard, callers>>

(***************************************************************************)
(* The credential bundle (rustpushgo/src/lib.rs).  Texts are sequences of   *)
(* character codes; a base64 text is the sequence of its alphabet indices,  *)
(* Pad standing for '='.  The SPD of the model, a record of the grant and   *)
(* the account name, is written as the bytes <<grant>> \o NameBytes.        *)
(***************************************************************************)
HexValue(c) ==
    IF c >= 48 /\ c <= 57 THEN c - 48
    ELSE IF c >= 97 /\ c <= 102 THEN c - 87
    ELSE IF c >= 65 /\ c <= 70 THEN c - 55
    ELSE -1

\* rustpush::util::decode_hex: None for a text that is not pairs of hex digits
RECURSIVE DecodeHex(_)
DecodeHex(text) ==
    IF text = <<>> THEN Some(<<>>)
    ELSE IF Len(text) = 1 \/ HexValue(text[1]) < 0 \/ HexValue(text[2]) < 0 THEN None
    ELSE LET rest == DecodeHex(SubSeq(text, 3, Len(text)))
         IN  IF IsNone(rest) THEN None
             ELSE Some(<<16 * HexValue(text[1]) + HexValue(text[2])>> \o rest[1])

Pad == 64

\* rustpush::util::base64_encode: three bytes make four sextets
RECURSIVE Base64Encode(_)
Base64Encode(bs) ==
    IF bs = <<>> THEN <<>>
    ELSE LET b2 == IF Len(bs) >= 2 THEN bs[2] ELSE 0
             b3 == IF Len(bs) >= 3 THEN bs[3] ELSE 0
             n  == bs[1] * 65536 + b2 * 256 + b3
         IN  <<n \div 262144, (n \div 4096) % 64,
               IF Len(bs) >= 2 THEN (n \div 64) % 64 ELSE Pad,
               IF Len(bs) >= 3 THEN n % 64 ELSE Pad>>
             \o (IF Len(bs) > 3 THEN Base64Encode(SubSeq(bs, 4, Len(bs))) ELSE <<>>)

\* rustpush::util::base64_decode
RECURSIVE Base64Decode(_)
Base64Decode(text) ==
    IF Len(text) < 4 THEN <<>>
    ELSE LET s3 == IF text[3] = Pad THEN 0 ELSE text[3]
             s4 == IF text[4] = Pad THEN 0 ELSE text[4]
             n  == text[1] * 262144 + text[2] * 4096 + s3 * 64 + s4
         IN  <<n \div 65536>>
             \o (IF text[3] = Pad THEN <<>> ELSE <<(n \div 256) % 256>>)
             \o (IF text[4] = Pad THEN <<>> ELSE <<n % 256>>)
             \o Base64Decode(SubSeq(text, 5, Len(text)))

NameBytes(name) == IF name = AcName THEN <<97, 64, 105>> ELSE <<>>

\* plist::to_writer_binary of the SPD
ToWriterBinary(spd) == <<spd.grant>> \o NameBytes(spd.acname)

\* plist::from_bytes: None for bytes that are not a dictionary
FromBytes(bs) ==
    IF Len(bs) >= 1 /\ \E name \in {AcName} : NameBytes(name) = Tail(bs)
    THEN Some([grant |-> bs[1], acname |-> CHOOSE name \in {AcName} : NameBytes(name) = Tail(bs)])
    ELSE None

\* the bundle of finish, of the session s and its account a
AccountPersistData(s, a) ==
    [username |-> s.username,
     hashed_password_hex |-> IF IsSome(a.hashed_password) THEN HexEncode(a.hashed_password[1])
                             ELSE <<>>,
     pet |-> GetPet(a)[1].token,
     spd_base64 |-> Base64Encode(ToWriterBinary(a.spd[1]))]

\* an IDSUser as finish handles it.  madrid is its registration for
\* com.apple.madrid: None when registration has no such entry, Some(None) when
\* calculate_rereg_time_s fails on it, Some(Some(t)) when it yields t seconds
User(name, auth_keypair, madrid) ==
    [name |-> name, auth_keypair |-> auth_keypair, madrid |-> madrid]

Madrids == {None, Some(None), Some(Some(-5)), Some(Some(0)), Some(Some(3600))}

\* a faulty variant of HasValidRegistration: a re-registration time of 0 is valid
HasValidRegistrationFromZero(u) ==
    IF IsNone(u.madrid) THEN FALSE
    ELSE IF IsNone(u.madrid[1]) THEN FALSE
    ELSE u.madrid[1][1] >= 0

\* has_valid_registration of finish
HasValidRegistration(u) ==
    IF IsNone(u.madrid) THEN FALSE
    ELSE IF IsNone(u.madrid[1]) THEN FALSE
    ELSE u.madrid[1][1] > 0

\* the existing_users argument of finish
ExistingUsers ==
    {None, Some(<<>>)}
    \cup {Some(<<User("existing", "old", m)>>) : m \in Madrids}
    \cup {Some(<<User("existing", "old", m), User("second", "old2", None)>>) :
            m \in {Some(Some(0)), Some(Some(3600))}}

\* what finish is called with and how the collaborators it awaits answer:
\* login_apple_delegates, authenticate_apple (and the registration the user
\* it returns carries), IDSNGMIdentity::new, register
FinishInput(delegates, auth, existing_identity, identity, existing_users, fresh_madrid, register) ==
    [delegates |-> delegates, auth |-> auth, existing_identity |-> existing_identity,
     identity |-> identity, existing_users |-> existing_users,
     fresh_madrid |-> fresh_madrid, register |-> register]

FinishInputs ==
    {FinishInput(d, "ok", TRUE, "ok", None, None, "ok") : d \in {"error", "no_ids"}}
    \cup {FinishInput("ok", "error", TRUE, "ok", None, None, "ok")}
    \cup {FinishInput("ok", "ok", FALSE, i, None, None, "ok") : i \in {"ok", "error"}}
    \cup {FinishInput("ok", "ok", TRUE, "ok", eu, fm, rg) :
            eu \in ExistingUsers, fm \in {None, Some(Some(3600))}, rg \in {"ok", "error"}}

FinishFailure(msg, reqs, registers) ==
    [out |-> Err("GenericError", Some(<<msg, "">>)), users |-> None, reqs |-> reqs,
     registers |-> registers, registered |-> None]

\* finish on the session s holding account a: what it returns, the requests
\* it made, how often it called register and with which users.  What register
\* writes into the users it is given is not followed.
FinishEffect(s, a, x) ==
    LET fresh_user == User("fresh", "fresh", x.fresh_madrid)
        has_existing == IsSome(x.existing_users) /\ x.existing_users[1] # <<>>
        has_valid_registration ==
            has_existing /\ HasValidRegistration(x.existing_users[1][1])
        registers == IF has_existing THEN ~has_valid_registration
                     ELSE IsNone(fresh_user.madrid)
        users == IF has_valid_registration
                 THEN [x.existing_users[1] EXCEPT ![1].auth_keypair = fresh_user.auth_keypair]
                 ELSE <<fresh_user>>
    IN  IF ~s.held THEN FinishFailure("No active session", 0, 0)
        ELSE IF IsNone(GetPet(a)) THEN FinishFailure("No PET token available after login", 0, 0)
        ELSE IF IsNone(a.spd)
        THEN [FinishFailure("", 0, 0) EXCEPT !.out = Panic("No SPD after login")]
        ELSE IF x.delegates = "error" THEN FinishFailure("Failed to get delegates", 1, 0)
        ELSE IF x.delegates = "no_ids" THEN FinishFailure("No IDS delegate in response", 1, 0)
        ELSE IF x.auth = "error" THEN FinishFailure("IDS authentication failed", 2, 0)
        ELSE IF ~x.existing_identity /\ x.identity = "error"
        THEN FinishFailure("Failed to create identity", 2, 0)
        ELSE IF registers /\ x.register = "error"
        THEN [FinishFailure("Registration failed", 3, 1) EXCEPT !.registered = Some(<<fresh_user>>)]
        ELSE [out |-> OkValue("IDSUsersWithIdentityRecord", None), users |-> Some(users),
              reqs |-> IF registers THEN 3 ELSE 2,
              registers |-> IF registers THEN 1 ELSE 0,
              registered |-> IF registers THEN Some(<<fresh_user>>) ELSE None]

\* a faulty variant of SessionAfterFinish: the account is taken whatever finish returns
SessionAfterFinishTaken(s, out) ==
    IF out.tag = "Ok" THEN [s EXCEPT !.held = FALSE]
    ELSE IF out.tag = "Err" /\ s.held THEN [s EXCEPT !.held = FALSE, !.failed = out.arg[1][1]]
    ELSE s

\* the session once finish has returned out: guard.take() is reached on the
\* way to Ok only
SessionAfterFinish(s, out) ==
    IF out.tag = "Ok" THEN [s EXCEPT !.held = FALSE]
    ELSE IF out.tag = "Err" /\ s.held THEN [s EXCEPT !.failed = out.arg[1][1]]
    ELSE s

\* x: the input of the call; retry: the call follows a failed finish
FinishRet(eff, persist, a, x) ==
    [op |-> "finish", tag |-> eff.out.tag, kind |-> eff.out.kind, arg |-> eff.out.arg,
     at |-> now, account_persist |-> persist, account |-> a,
     users |-> eff.users, reqs |-> eff.reqs, registers |-> eff.registers,
     registered |-> eff.registered, existing_users |-> x.existing_users,
     held |-> session[1].held,
     retry |-> ret.op = "finish" /\ ret.tag # "Ok"]

\* LoginSession::finish
Finish(x) ==
    /\ call = Idle
    /\ IsSome(session)
    /\ LET s == session[1]
           eff == FinishEffect(s, account, x)
       IN  /\ ret' = FinishRet(eff, IF eff.out.tag = "Ok" THEN Some(AccountPersistData(s, account))
                                    ELSE None, account, x)
           /\ session' = Some(SessionAfterFinish(s, eff.out))
    /\ UNCHANGED <<account, now, ticks, anisette, mutex, tasks, grants, call, nac, guard, callers>>

\* the days of validity given to the restored PET
RestoredPetTtl == U64(<<2, 592, 000>>)

\* restore_token_provider, called with the fields of the bundle that finish returned
RestoreTokenProvider ==
    /\ call = Idle
    /\ ret.op = "finish" /\ ret.tag = "Ok"
    /\ LET b == ret.account_persist[1]
           hashed_password == DecodeHex(b.hashed_password_hex)
           spd == FromBytes(Base64Decode(b.spd_base64))
           r == IF IsNone(hashed_password)
                THEN Err("GenericError", Some(<<"Invalid hashed_password hex", "">>))
                ELSE IF IsNone(spd) THEN Err("GenericError", Some(<<"Invalid SPD plist", "">>))
                ELSE OkValue("WrappedTokenProvider", None)
       IN  /\ account' = IF r.tag = "Ok"
                         THEN [spd |-> spd, username |-> Some(b.username),
                               hashed_password |-> hashed_password,
                               tokens |-> Insert(<<>>, PetId,
                                                 [token |-> b.pet,
                                                  expiration |-> Add(now, Secs(RestoredPetTtl))])]
                         ELSE account
           /\ ret' = [op |-> "restore_token_provider", tag |-> r.tag, kind |-> r.kind,
                      arg |-> r.arg, at |-> now, account_persist |-> b, built |-> ret.account]
    /\ UNCHANGED <<now, ticks, anisette, mutex, tasks, grants, call, session, nac, guard, callers>>

\* the session object is dropped by its owner
DropSession ==
    /\ call = Idle
    /\ IsSome(session)
    /\ session' = None
    /\ UNCHANGED <<account, now, ticks, anisette, mutex, tasks, grants, call, ret, nac, guard, callers>>

(***************************************************************************)
(* AnisetteClient (omnisette/src/lib.rs).  The provider is the k-th time it *)
(* is invoked either failing or producing the header set of generation k;   *)
(* `invoked` and `generated` count its invocations and its successes, and   *)
(* `invoked_at` is the instant of the latest invocation, `stamped` the      *)
(* invocation whose success wrote generated_at.                             *)
(***************************************************************************)
MaxInvocations == 3

MaxAniTicks == 3

AniTickSteps == {Secs(U64(<<30>>)), Secs(U64(<<60>>)), MulAdd(U64(<<60>>), 1000, 1)}

\* how long provider.get_anisette_headers().await takes
ProviderDurations == {Zero(U64Limbs), Secs(U64(<<1>>))}

HeaderSet(k) == {Tok("X-Apple-I-MD", k)}

\* AnisetteClient::new
AnisetteNew ==
    [cached_headers |-> {}, generated_at |-> Zero(U64Limbs), invoked |-> 0, generated |-> 0,
     invoked_at |-> None, stamped |-> 0]

\* now.duration_since(self.generated_at).unwrap_or(Duration::from_secs(120))
LastGenerated(c, t) ==
    IF Leq(c.generated_at, t) THEN Sub(t, c.generated_at) ELSE Secs(U64(<<120>>))

\* a faulty variant of NeedsGeneration: headers of exactly 60 seconds are stale
NeedsGenerationFromSixty(c, t) == Leq(Secs(U64(<<60>>)), LastGenerated(c, t))

\* last_generated > Duration::from_secs(60)
NeedsGeneration(c, t) == Less(Secs(U64(<<60>>)), LastGenerated(c, t))

\* a faulty variant of GetHeadersEffect: a failed refresh stamps generated_at
GetHeadersEffectStampingFailure(c, t, provOk, d) ==
    IF ~NeedsGeneration(c, t)
    THEN [client |-> c, out |-> Some(c.cached_headers), invoked |-> FALSE, at |-> t]
    ELSE IF ~provOk
    THEN [client |-> [c EXCEPT !.invoked = @ + 1, !.invoked_at = Some(t),
                               !.generated_at = Add(t, d)],
          out |-> None, invoked |-> TRUE, at |-> Add(t, d)]
    ELSE [client |-> [cached_headers |-> HeaderSet(c.invoked + 1),
                      generated_at |-> Add(t, d),
                      invoked |-> c.invoked + 1, generated |-> c.generated + 1,
                      invoked_at |-> Some(t), stamped |-> c.invoked + 1],
          out |-> Some(HeaderSet(c.invoked + 1)), invoked |-> TRUE, at |-> Add(t, d)]

\* get_headers entered at t, the provider (if invoked) answering provOk after d
GetHeadersEffect(c, t, provOk, d) ==
    IF ~NeedsGeneration(c, t)
    THEN [client |-> c, out |-> Some(c.cached_headers), invoked |-> FALSE, at |-> t]
    ELSE IF ~provOk
    THEN [client |-> [c EXCEPT !.invoked = @ + 1, !.invoked_at = Some(t)],
          out |-> None, invoked |-> TRUE, at |-> Add(t, d)]
    ELSE [client |-> [cached_headers |-> HeaderSet(c.invoked + 1),
                      generated_at |-> Add(t, d),
                      invoked |-> c.invoked + 1, generated |-> c.generated + 1,
                      invoked_at |-> Some(t), stamped |-> c.invoked + 1],
          out |-> Some(HeaderSet(c.invoked + 1)), invoked |-> TRUE, at |-> Add(t, d)]

GetHeaders(provOk, d) ==
    /\ call = Idle
    /\ NeedsGeneration(anisette, now) => anisette.invoked < MaxInvocations
    /\ LET eff == GetHeadersEffect(anisette, now, provOk, d)
       IN  /\ anisette' = eff.client
           /\ now' = eff.at
           /\ ret' = [op |-> "get_headers", tag |-> IF IsSome(eff.out) THEN "Ok" ELSE "Err",
                      headers |-> eff.out, invoked |-> eff.invoked, entered |-> now,
                      at |-> eff.at, before |-> anisette]
    /\ UNCHANGED <<account, ticks, grants, call, session, mutex, tasks, nac, guard, callers>>

(***************************************************************************)
(* Tasks calling submit_2fa and finish on one Arc<LoginSession>.  Each call *)
(* begins with `self.account.lock().await` and keeps the guard until it     *)
(* returns.  submit_2fa is taken apart at the await of verify_2fa, finish   *)
(* at the awaits that follow the building of the bundle.                    *)
(***************************************************************************)
MaxCallers == 3

Callers == 1..MaxCallers

CallerIdle == [pc |-> "idle", op |-> "", out |-> None, persist |-> None]

\* a faulty variant of AccountLockFree: lock() never waits
AccountLockFreeAlways == TRUE

\* self.account.lock().await goes on
AccountLockFree == IsNone(guard)

\* task i calls submit_2fa or finish and waits for the mutex
SessionCall(i, op) ==
    /\ call = Idle
    /\ IsSome(session)
    /\ callers[i].pc = "idle"
    /\ callers' = [callers EXCEPT ![i] = [CallerIdle EXCEPT !.pc = "waiting", !.op = op]]
    /\ UNCHANGED <<account, now, ticks, anisette, mutex, tasks, grants, call, ret, session, nac,
                   guard>>

\* the call of task i returns out: the guard is dropped
CallerReturns(i, out) ==
    /\ callers' = [callers EXCEPT ![i].pc = "done", ![i].out = Some(out)]
    /\ guard' = None

\* task i is given the guard and runs to its first await: as_mut() on the
\* Option, and for finish the PET, the SPD and the bundle
SessionAcquire(i) ==
    /\ callers[i].pc = "waiting"
    /\ AccountLockFree
    /\ LET s == session[1]
           early == FinishEffect(s, account, FinishInput("ok", "ok", TRUE, "ok", None, None, "ok"))
       IN  IF ~s.held THEN CallerReturns(i, Err("GenericError", Some(<<"No active session", "">>)))
           ELSE IF callers[i].op = "finish" /\ early.out.tag # "Ok" THEN CallerReturns(i, early.out)
           ELSE /\ guard' = Some(i)
                /\ callers' = [callers EXCEPT
                       ![i].pc = IF callers[i].op = "finish" THEN "delegates" ELSE "verify_2fa",
                       ![i].persist = IF callers[i].op = "finish"
                                      THEN Some(AccountPersistData(s, account)) ELSE None]
    /\ UNCHANGED <<account, now, ticks, anisette, mutex, tasks, grants, call, ret, session, nac>>

\* verify_2fa of task i's submit_2fa gets its reply
SessionVerified(i, r) ==
    /\ callers[i].pc = "verify_2fa"
    /\ MayStore(Verify2faStores(r), r)
    /\ LET eff == Verify2fa(account, TRUE, r, now)
           res == Wrapped(eff.out, "2FA verification failed")
       IN  /\ account' = eff.account
           /\ CallerReturns(i, IF res.tag = "Ok"
                               THEN Submit2faMatch(LS(res.kind, res.arg), eff.account).out[1]
                               ELSE res)
    /\ grants' = Granted(Verify2faStores(r), account, TRUE, r)
    /\ UNCHANGED <<now, ticks, anisette, mutex, tasks, call, ret, session, nac>>

\* the requests of task i's finish are answered as x says; guard.take()
\* yields the account unless it has been taken
SessionFinished(i, x) ==
    /\ callers[i].pc = "delegates"
    /\ LET s == session[1]
           eff == FinishEffect([s EXCEPT !.held = TRUE], account, x)
           out == IF eff.out.tag = "Ok" /\ ~s.held
                  THEN Err("GenericError", Some(<<"Account already consumed", "">>))
                  ELSE eff.out
       IN  /\ session' = Some(SessionAfterFinish(s, out))
           /\ CallerReturns(i, out)
    /\ UNCHANGED <<account, now, ticks, anisette, mutex, tasks, grants, call, ret, nac>>

(***************************************************************************)
(* Client::send_message and Client::send_attachment (rustpushgo/src/lib.rs).*)
(* A frame of these calls keeps the conversation's is_sms, whether the text *)
(* carried a rich link, and `sends`: the messages handed to                 *)
(* self.client.send so far, each with its service, its id, whether it has   *)
(* link metadata, and the result of the send once it is known.              *)
(***************************************************************************)
\* what self.client.send returns: Ok or a PushError
SendResults == {"Ok", "NoValidTargets", "IoError"}

\* MessageInst::new: the n-th message of the call, with an id of its own
MessageInst(n, service, link_meta) ==
    [id |-> Tok("msg", n), service |-> service, link_meta |-> link_meta, result |-> None]

\* the service of the first message
Service(is_sms) == IF is_sms THEN "SMS" ELSE "IMessage"

SendFrame(op, is_sms, rich) ==
    [op |-> op, pc |-> "start", is_sms |-> is_sms, rich |-> rich, sends |-> <<>>]

SendRet(f, r) ==
    [op |-> f.op, tag |-> r.tag, kind |-> r.kind, arg |-> r.arg, at |-> now,
     is_sms |-> f.is_sms, rich |-> f.rich, sends |-> f.sends]

\* send_message: the first message is built and handed to send
SendMessage(is_sms, rich) ==
    /\ call = Idle
    /\ call' = [SendFrame("send_message", is_sms, rich) EXCEPT
                   !.pc = "send", !.sends = <<MessageInst(1, Service(is_sms), rich)>>]
    /\ UNCHANGED <<account, now, ticks, anisette, mutex, tasks, grants, ret, session, nac,
                   guard, callers>>

\* send_attachment: MMCSFile::prepare_put is awaited first
SendAttachment(is_sms) ==
    /\ call = Idle
    /\ call' = [SendFrame("send_attachment", is_sms, FALSE) EXCEPT !.pc = "prepare"]
    /\ UNCHANGED <<account, now, ticks, anisette, mutex, tasks, grants, ret, session, nac,
                   guard, callers>>

\* prepare_put, then Attachment::new_mmcs, answer send_attachment
MmcsAnswered(ok) ==
    /\ call # Idle /\ call.op = "send_attachment" /\ call.pc \in {"prepare", "upload"}
    /\ IF ~ok
       THEN /\ call' = Idle
            /\ ret' = SendRet(call, Err("GenericError",
                                 Some(<<IF call.pc = "prepare" THEN "Failed to prepare MMCS upload"
                                        ELSE "Failed to upload attachment", "">>)))
       ELSE /\ call' = IF call.pc = "prepare" THEN [call EXCEPT !.pc = "upload"]
                       ELSE [call EXCEPT !.pc = "send",
                                         !.sends = <<MessageInst(1, Service(call.is_sms), FALSE)>>]
            /\ ret' = ret
    /\ UNCHANGED <<account, now, ticks, anisette, mutex, tasks, grants, session, nac,
                   guard, callers>>

\* a faulty variant of SendRetries: any error is retried as SMS
SendRetriesAnyError(r, is_sms) == r # "Ok" /\ ~is_sms

\* the arm `Err(rustpush::PushError::NoValidTargets) if !conversation.is_sms`
SendRetries(r, is_sms) == r = "NoValidTargets" /\ ~is_sms

\* the text of the error a failed send is returned with
SendFailure(op, pc) ==
    IF pc = "send_sms"
    THEN IF op = "send_message" THEN "Failed to send SMS" ELSE "Failed to send SMS attachment"
    ELSE IF op = "send_message" THEN "Failed to send message" ELSE "Failed to send attachment"

\* self.client.send of the message last built returns r
SendAnswered(r) ==
    /\ call # Idle /\ call.op \in {"send_message", "send_attachment"}
    /\ call.pc \in {"send", "send_sms"}
    /\ LET n == Len(call.sends)
           f == [call EXCEPT !.sends[n].result = Some(r)]
       IN  IF r = "Ok"
           THEN /\ call' = Idle
                /\ ret' = SendRet(f, OkValue("String", Some(f.sends[n].id)))
           ELSE IF call.pc = "send" /\ SendRetries(r, call.is_sms)
           THEN /\ call' = [f EXCEPT !.pc = "send_sms",
                                     !.sends = Append(@, MessageInst(n + 1, "SMS", FALSE))]
                /\ ret' = ret
           ELSE /\ call' = Idle
                /\ ret' = SendRet(f, Err("GenericError", Some(<<SendFailure(call.op, call.pc), r>>)))
    /\ UNCHANGED <<account, now, ticks, anisette, mutex, tasks, grants, session, nac,
                   guard, callers>>

(***************************************************************************)
(* Specifications.  Spec: login_email_pass and the reads of the token       *)
(* store.  SpecVerify: the 2FA operations of an account that logged in.     *)
(* SpecDrivers: login_with_anisette, login_start and submit_2fa.            *)
(* SpecAnisette: get_headers of an AnisetteClient as its clock advances.    *)
(***************************************************************************)
(***************************************************************************)
(* Tasks sharing one ArcAnisetteClient = Arc<Mutex<AnisetteClient>>.  Each  *)
(* runs `self.anisette.lock().await.get_headers().await?.clone()`: it waits *)
(* for the tokio mutex, and holds the guard over the whole of get_headers,  *)
(* its provider await included, until the statement ends.  get_headers is   *)
(* taken apart at its await and between its two assignments, so that the    *)
(* client passes through the state in which cached_headers is already of    *)
(* the new refresh and generated_at still of the old one.                   *)
(***************************************************************************)
MaxTasks == 2
Tasks == 1..MaxTasks
SharedTickSteps == {Secs(U64(<<30>>)), Secs(U64(<<61>>))}

TaskIdle == [pc |-> "idle", called_at |-> None, inv0 |-> 0, seen |-> None, out |-> None]

TaskOk(headers) == Some([tag |-> "Ok", headers |-> headers])

TaskErr == Some([tag |-> "Err", headers |-> {}])

HeadersOfRefresh(k) == IF k = 0 THEN {} ELSE HeaderSet(k)

MutexFree(m) == IsNone(m)

\* the call is made: the task reaches lock().await
TaskCall(i) ==
    /\ tasks[i].pc \in {"idle", "done"}
    /\ tasks' = [tasks EXCEPT ![i] = [TaskIdle EXCEPT !.pc = "waiting",
                                                      !.called_at = Some(now),
                                                      !.inv0 = anisette.invoked]]
    /\ UNCHANGED <<account, now, ticks, grants, call, ret, session, anisette, mutex, nac, guard, callers>>

\* lock().await resolves
TaskAcquire(i) ==
    /\ tasks[i].pc = "waiting"
    /\ MutexFree(mutex)
    /\ mutex' = Some(i)
    /\ tasks' = [tasks EXCEPT ![i].pc = "locked"]
    /\ UNCHANGED <<account, now, ticks, grants, call, ret, session, anisette, nac, guard, callers>>

\* get_headers up to its await: the cache is read and either answers the call,
\* or the provider is invoked
TaskCheck(i) ==
    /\ tasks[i].pc = "locked"
    /\ LET seen == [headers |-> anisette.cached_headers, stamped |-> anisette.stamped]
       IN  IF ~NeedsGeneration(anisette, now)
           THEN /\ tasks' = [tasks EXCEPT ![i].pc = "done", ![i].seen = Some(seen),
                                          ![i].out = TaskOk(anisette.cached_headers)]
                /\ mutex' = None
                /\ UNCHANGED anisette
           ELSE /\ anisette.invoked < MaxInvocations
                /\ anisette' = [anisette EXCEPT !.invoked = @ + 1, !.invoked_at = Some(now)]
                /\ tasks' = [tasks EXCEPT ![i].pc = "provider", ![i].seen = Some(seen)]
                /\ UNCHANGED mutex
    /\ UNCHANGED <<account, now, ticks, grants, call, ret, session, nac, guard, callers>>

\* the provider answers after d: `?` returns its error and drops the guard,
\* or cached_headers is assigned
TaskProvider(i, provOk, d) ==
    /\ tasks[i].pc = "provider"
    /\ now' = Add(now, d)
    /\ IF ~provOk
       THEN /\ tasks' = [tasks EXCEPT ![i].pc = "done", ![i].out = TaskErr]
            /\ mutex' = None
            /\ UNCHANGED anisette
       ELSE /\ anisette' = [anisette EXCEPT !.cached_headers = HeaderSet(anisette.invoked),
                                            !.generated = @ + 1]
            /\ tasks' = [tasks EXCEPT ![i].pc = "stored"]
            /\ UNCHANGED mutex
    /\ UNCHANGED <<account, ticks, grants, call, ret, session, nac, guard, callers>>

\* generated_at is assigned, the headers are cloned and the guard is dropped
TaskStamp(i) ==
    /\ tasks[i].pc = "stored"
    /\ anisette' = [anisette EXCEPT !.generated_at = now, !.stamped = anisette.invoked]
    /\ tasks' = [tasks EXCEPT ![i].pc = "done", ![i].out = TaskOk(anisette.cached_headers)]
    /\ mutex' = None
    /\ UNCHANGED <<account, now, ticks, grants, call, ret, session, nac, guard, callers>>

(***************************************************************************)
(* Hardware attestation.  ValidationCtx (open_absinthe::nac) is declared   *)
(* by `pub mod nac;` and used by macos.rs and nac_test.rs; its stages are  *)
(* those of the design: new leaves it at "init", key_establishment moves   *)
(* it to "established", sign consumes it.  `hist` records the calls made   *)
(* on a context and how each ended.                                        *)
(***************************************************************************)
MaxContexts == 2
MaxCtxOps == 3
MaxCalls == 3

Ctx(id) == [id |-> id, stage |-> "init", hist |-> <<>>]

AbsintheError == [tag |-> "Err", kind |-> "AbsintheError", data |-> None]

\* ValidationCtx::new(&certs, &mut output_req, &hw)
CtxNewEffect(id, certOk) ==
    IF certOk
    THEN [ctx |-> Some(Ctx(id)), out |-> [tag |-> "Ok", kind |-> "ctx", data |-> None]]
    ELSE [ctx |-> None, out |-> AbsintheError]

\* ctx.key_establishment(&session_info)
KeyEstablishmentEffect(c, infoOk) ==
    IF c.stage = "init" /\ infoOk
    THEN [ctx |-> [c EXCEPT !.stage = "established",
                            !.hist = Append(@, <<"key_establishment", TRUE>>)],
          out |-> [tag |-> "Ok", kind |-> "unit", data |-> None]]
    ELSE [ctx |-> [c EXCEPT !.hist = Append(@, <<"key_establishment", FALSE>>)],
          out |-> AbsintheError]

\* ctx.sign(): the validation data of context id is written `id`
SignReusableEffect(c, signOk) ==
    IF c.stage = "established" /\ signOk
    THEN [ctx |-> [c EXCEPT !.hist = Append(@, <<"sign", TRUE>>)],
          out |-> [tag |-> "Ok", kind |-> "validation_data", data |-> Some(c.id)]]
    ELSE [ctx |-> [c EXCEPT !.hist = Append(@, <<"sign", FALSE>>)], out |-> AbsintheError]
SignEffect(c, signOk) ==
    IF c.stage = "established"
    THEN [ctx |-> [c EXCEPT !.stage = "consumed", !.hist = Append(@, <<"sign", signOk>>)],
          out |-> IF signOk
                  THEN [tag |-> "Ok", kind |-> "validation_data", data |-> Some(c.id)]
                  ELSE AbsintheError]
    ELSE [ctx |-> [c EXCEPT !.hist = Append(@, <<"sign", FALSE>>)], out |-> AbsintheError]

\* relay_cert_fp: the fingerprint configured for the call; peer: the
\* fingerprint of the certificate the relay connection was made with
NoRun ==
    [pc |-> "idle", ctx |-> None, steps |-> <<>>, made0 |-> 0,
     relay_cert_fp |-> None, peer |-> None]

NacNew == [made |-> 0, ctx |-> None, calls |-> 0, run |-> NoRun]

CtxRet(op, eff, before) ==
    [op |-> op, tag |-> eff.out.tag, kind |-> eff.out.kind, data |-> eff.out.data,
     before |-> before]

\* a caller of the context's own interface, as nac_test.rs is
CtxNew(certOk) ==
    /\ nac.run.pc = "idle"
    /\ nac.made < MaxContexts
    /\ LET eff == CtxNewEffect(nac.made + 1, certOk)
       IN  /\ nac' = [nac EXCEPT !.made = @ + 1, !.ctx = eff.ctx]
           /\ ret' = CtxRet("new", eff, nac.ctx)
    /\ UNCHANGED <<account, now, ticks, grants, call, session, anisette, mutex, tasks, guard, callers>>

CtxKeyEstablishment(infoOk) ==
    /\ nac.run.pc = "idle"
    /\ IsSome(nac.ctx)
    /\ Len(nac.ctx[1].hist) < MaxCtxOps
    /\ LET eff == KeyEstablishmentEffect(nac.ctx[1], infoOk)
       IN  /\ nac' = [nac EXCEPT !.ctx = Some(eff.ctx)]
           /\ ret' = CtxRet("key_establishment", eff, nac.ctx)
    /\ UNCHANGED <<account, now, ticks, grants, call, session, anisette, mutex, tasks, guard, callers>>

CtxSign(signOk) ==
    /\ nac.run.pc = "idle"
    /\ IsSome(nac.ctx)
    /\ Len(nac.ctx[1].hist) < MaxCtxOps
    /\ LET eff == SignEffect(nac.ctx[1], signOk)
       IN  /\ nac' = [nac EXCEPT !.ctx = Some(eff.ctx)]
           /\ ret' = CtxRet("sign", eff, nac.ctx)
    /\ UNCHANGED <<account, now, ticks, grants, call, session, anisette, mutex, tasks, guard, callers>>

(***************************************************************************)
(* MacOSConfig::generate_validation_data.  With a relay URL the data is    *)
(* fetched from the relay.  Otherwise the call runs, one after the other:  *)
(* the certificate fetch (bag lookup, GET, plist), ValidationCtx::new, the *)
(* session-info exchange (plist_to_buf, bag lookup, POST, plist),          *)
(* key_establishment and sign.  Every step ends in `?`; the two bag        *)
(* lookups end in `.into_string().unwrap()`.  `steps` records the steps    *)
(* the call has performed, with the context each one used.                 *)
(***************************************************************************)
FetchOutcomes == {"ok", "error", "not a string"}

Step(name, c) == [step |-> name, ctx |-> IF IsSome(c) THEN Some(c[1].id) ELSE None]

GvdRet(run, out) ==
    [op |-> "generate_validation_data", tag |-> out.tag, kind |-> out.kind,
     data |-> out.data, relay |-> run.pc = "relay", steps |-> run.steps, made0 |-> run.made0,
     relay_cert_fp |-> run.relay_cert_fp, peer |-> run.peer]

\* what a fetch that did not succeed ends the call with
FetchFailure(o) ==
    IF o = "not a string"
    THEN [tag |-> "Panic", kind |-> "unwrap on None: into_string", data |-> None]
    ELSE [tag |-> "Err", kind |-> "PushError", data |-> None]

\* SHA-256 fingerprints of TLS certificates
Fingerprints == {"fp:relay", "fp:other"}

\* MacOSConfig with nac_relay_url set or not (relay) and its relay_cert_fp
GvdBegin(relay, relay_cert_fp) ==
    /\ nac.run.pc = "idle"
    /\ nac.calls < MaxCalls
    /\ nac' = [nac EXCEPT !.calls = @ + 1,
                          !.run = [pc |-> IF relay THEN "relay" ELSE "cert", ctx |-> None,
                                   steps |-> <<>>, made0 |-> nac.made,
                                   relay_cert_fp |-> relay_cert_fp, peer |-> None]]
    /\ UNCHANGED <<account, now, ticks, grants, call, ret, session, anisette, mutex, tasks, guard, callers>>

\* the relay request; presented is the fingerprint of the certificate of the
\* server that answers: danger_accept_invalid_certs(true) accepts any
\* certificate, and nothing is compared with relay_cert_fp afterwards
GvdRelay(o, presented) ==
    /\ nac.run.pc = "relay"
    /\ nac' = [nac EXCEPT !.run = NoRun]
    /\ ret' = GvdRet([nac.run EXCEPT !.peer = IF o = "error" THEN None ELSE Some(presented)],
                     IF o = "ok"
                     THEN [tag |-> "Ok", kind |-> "validation_data", data |-> Some(0)]
                     ELSE [tag |-> "Err", kind |-> "RelayError", data |-> None])
    /\ UNCHANGED <<account, now, ticks, grants, call, session, anisette, mutex, tasks, guard, callers>>

\* a step of the call: it is recorded, and the call goes on to `next` when
\* the step succeeded and returns `out` when it did not
GvdStep(name, c, made, ok, next, out) ==
    LET run == [nac.run EXCEPT !.steps = Append(@, Step(name, c)), !.ctx = c]
    IN  /\ IF ok
           THEN /\ nac' = [nac EXCEPT !.made = made, !.run = [run EXCEPT !.pc = next]]
                /\ UNCHANGED ret
           ELSE /\ nac' = [nac EXCEPT !.made = made, !.run = NoRun]
                /\ ret' = GvdRet(run, out)
        /\ UNCHANGED <<account, now, ticks, grants, call, session, anisette, mutex, tasks, guard, callers>>

GvdCert(o) ==
    /\ nac.run.pc = "cert"
    /\ GvdStep("cert", None, nac.made, o = "ok", "init", FetchFailure(o))

GvdInit(certOk) ==
    /\ nac.run.pc = "init"
    /\ LET eff == CtxNewEffect(nac.made + 1, certOk)
       IN  GvdStep("init", eff.ctx, nac.made + 1, certOk, "session", eff.out)

GvdSession(o) ==
    /\ nac.run.pc = "session"
    /\ GvdStep("session", nac.run.ctx, nac.made, o = "ok", "key_establishment",
               FetchFailure(o))

GvdKeyEstablishment(infoOk) ==
    /\ nac.run.pc = "key_establishment"
    /\ LET eff == KeyEstablishmentEffect(nac.run.ctx[1], infoOk)
       IN  GvdStep("key_establishment", Some(eff.ctx), nac.made, infoOk, "sign", eff.out)

GvdSign(signOk) ==
    /\ nac.run.pc = "sign"
    /\ LET eff == SignEffect(nac.run.ctx[1], signOk)
       IN  GvdStep("sign", Some(eff.ctx), nac.made, FALSE, "idle", eff.out)

Init ==
    /\ account = NewAccount
    /\ now = Now0
    /\ ticks = 0
    /\ grants = 0
    /\ call = Idle
    /\ ret = NoRet
    /\ session = None
    /\ anisette = AnisetteNew
    /\ mutex = None
    /\ tasks = [i \in Tasks |-> TaskIdle]
    /\ nac = NacNew
    /\ guard = None
    /\ callers = [i \in Callers |-> CallerIdle]

PhoneIds == {1, 2}

Code == "123456"

Next ==
    \/ \E u \in Usernames, p \in Passwords, aniOk \in BOOLEAN : LoginEmailPass(u, p, aniOk)
    \/ \E r \in InitReplies : InitReply(r)
    \/ \E r \in CompleteReplies(grants + 1) : CompleteReply(r)
    \/ Abandon
    \/ \E d \in TickSteps : Tick(d, MaxTicks)
    \/ GetPetCall
    \/ \E id \in {PetId, HbId}, aniOk \in BOOLEAN : GetTokenCall(id, aniOk)

Spec == Init /\ [][Next]_vars

\* the anisette provider fails before any request is sent, whatever the
\* server would have replied
VerifyInputs(g) ==
    {<<TRUE, r>> : r \in VerifyReplies(g)} \cup {<<FALSE, [kind |-> "transport"]>>}

NextVerify ==
    \/ \E u \in Usernames, p \in Passwords : LoginEmailPass(u, p, TRUE)
    \/ InitReply([kind |-> "ok", sp |-> Some("s2k")])
    \/ \E r \in SecondFactorReplies(grants + 1) : CompleteReply(r)
    \/ \E au \in AuValues :
            CompleteReply(Granting(grants + 1, TRUE, TRUE, Some(AcName), None, au))
    \/ Tick(Secs(U64(<<301>>)), MaxTicks)
    \/ \E r \in SendReplies : Send2fa(TRUE, r)
    \/ \E id \in PhoneIds, r \in SendReplies : SendSms2fa(id, TRUE, r)
    \/ \E x \in VerifyInputs(grants + 1) : Verify2faCall(x[1], x[2])
    \/ \E id \in PhoneIds, x \in VerifyInputs(grants + 1) :
            VerifySms2faCall(Code, VerifyBody(id, None), x[1], x[2])
    \/ GetPetCall

SpecVerify == Init /\ [][NextVerify]_vars

DriverCompleteReplies(g) ==
    FailedReplies
    \cup {Granting(g, TRUE, TRUE, Some(AcName), t, au) :
            t \in {None, BothTokens(g), HbOnly(g)}, au \in AuValues}

NextDrivers ==
    \/ \E u \in Usernames, p \in Passwords, aniOk \in BOOLEAN : LoginWithAnisette(u, p, aniOk)
    \/ \E aniOk \in BOOLEAN, r \in LwaReplies(grants + 1) : LwaStep(aniOk, r)
    \/ \E u \in Usernames, p \in Passwords, aniOk \in BOOLEAN : LoginStart(u, p, aniOk)
    \/ \E aniOk \in BOOLEAN, r \in SendReplies : LoginStartStep(aniOk, r)
    \/ \E aniOk \in BOOLEAN, r \in VerifyReplies(grants + 1) : Submit2fa(aniOk, r)
    \/ \E r \in InitReplies : InitReply(r)
    \/ \E r \in DriverCompleteReplies(grants + 1) : CompleteReply(r)
    \/ \E d \in {"ok", "error"} : Finish(FinishInput(d, "ok", TRUE, "ok", None, None, "ok"))
    \/ RestoreTokenProvider
    \/ DropSession

SpecDrivers == Init /\ [][NextDrivers]_vars

\* SpecFinish: a LoginSession from login_start to finish, with every input
\* of finish, on an account that logs in with or without a second factor
FinishCompleteReplies(g) ==
    {[kind |-> "transport"]}
    \cup {Granting(g, TRUE, TRUE, Some(AcName), t, au) :
            t \in {None, BothTokens(g)},
            au \in {None, Some([str |-> TRUE, s |-> "trustedDeviceSecondaryAuth"])}}

FinishVerifyReplies(g) ==
    {[kind |-> "transport"]}
    \cup {Reply(200, "ok", g, <<>>, <<>>, pe) :
            pe \in {None, Some(<<Txt("12345"), Txt(Tok(PetId, g))>>)}}

NextFinish ==
    \/ \E u \in Usernames, p \in Passwords : LoginStart(u, p, TRUE)
    \/ InitReply([kind |-> "ok", sp |-> Some("s2k")])
    \/ \E r \in FinishCompleteReplies(grants + 1) : CompleteReply(r)
    \/ \E r \in SendReplies : LoginStartStep(TRUE, r)
    \/ \E r \in FinishVerifyReplies(grants + 1) : Submit2fa(TRUE, r)
    \/ \E x \in FinishInputs : Finish(x)
    \/ DropSession

SpecFinish == Init /\ [][NextFinish]_vars

\* SpecSession: tasks calling submit_2fa and finish on the session that
\* login_start returned
SessionFinishInputs ==
    {FinishInput(d, "ok", TRUE, "ok", None, None, rg) : d \in {"ok", "error"}, rg \in {"ok", "error"}}

NextSession ==
    \/ \E u \in Usernames : LoginStart(u, <<1, 2, 3>>, TRUE)
    \/ InitReply([kind |-> "ok", sp |-> Some("s2k")])
    \/ \E r \in FinishCompleteReplies(grants + 1) : CompleteReply(r)
    \/ LoginStartStep(TRUE, [kind |-> "http", http |-> 200])
    \/ \E i \in Callers, op \in {"submit_2fa", "finish"} : SessionCall(i, op)
    \/ \E i \in Callers : SessionAcquire(i)
    \/ \E i \in Callers, r \in FinishVerifyReplies(grants + 1) : SessionVerified(i, r)
    \/ \E i \in Callers, x \in SessionFinishInputs : SessionFinished(i, x)

SpecSession == Init /\ [][NextSession]_vars

\* SpecSend: send_message and send_attachment of a Client
NextSend ==
    \/ \E is_sms \in BOOLEAN, rich \in BOOLEAN : SendMessage(is_sms, rich)
    \/ \E is_sms \in BOOLEAN : SendAttachment(is_sms)
    \/ \E ok \in BOOLEAN : MmcsAnswered(ok)
    \/ \E r \in SendResults : SendAnswered(r)

SpecSend == Init /\ [][NextSend]_vars

\* SpecLogout: logout_all on an account that logged in, as its HB token ages
LogoutCompleteReplies(g) ==
    {[kind |-> "transport"]}
    \cup {Granting(g, TRUE, TRUE, acname, t, None) :
            acname \in {None, Some(AcName)}, t \in {None, BothTokens(g)}}

NextLogout ==
    \/ \E u \in Usernames : LoginEmailPass(u, <<1, 2, 3>>, TRUE)
    \/ \E r \in {[kind |-> "transport"], [kind |-> "ok", sp |-> Some("s2k")]} : InitReply(r)
    \/ \E r \in LogoutCompleteReplies(grants + 1) : CompleteReply(r)
    \/ Tick(Secs(U64(<<3, 601>>)), MaxTicks)
    \/ \E aniOk \in BOOLEAN : LogoutAll(aniOk)
    \/ \E aniOk \in BOOLEAN, r \in SendReplies : PostdataReply(aniOk, r)

SpecLogout == Init /\ [][NextLogout]_vars

\* the grant of the next granting response: a new one while the server has
\* any left, and the latest one again after that
GrantOffered == IF grants < MaxGrants THEN grants + 1 ELSE grants

\* the answers of that server: failures, and 2FA answers without HB tokens
LoopReplies(g) ==
    {r \in LwaReplies(g) : r.kind = "reply" => (r.hb = <<>> /\ r.body \in {"ok", "status"})}

LoopCompleteReplies(g) ==
    FailedReplies \cup {Granting(g, TRUE, TRUE, Some(AcName), HbOnly(g), au) : au \in AuValues}

\* login_with_anisette against a server that never stops answering
NextLoop ==
    \/ \E u \in Usernames, p \in Passwords, aniOk \in BOOLEAN : LoginWithAnisette(u, p, aniOk)
    \/ \E aniOk \in BOOLEAN, r \in LoopReplies(GrantOffered) : LwaStep(aniOk, r)
    \/ \E r \in InitReplies : InitReply(r)
    \/ \E r \in LoopCompleteReplies(GrantOffered) : CompleteReply(r)

\* the answer a request gets at the latest: the transport layer gives up
Timeout == [kind |-> "transport"]

\* no request is awaited for ever, and the task goes on between requests
LoopFairness ==
    /\ WF_vars(InitReply(Timeout))
    /\ WF_vars(CompleteReply(Timeout))
    /\ \A pc \in {"send_2fa", "send_sms", "verify_2fa", "verify_sms"} :
          WF_vars(call # Idle /\ call.pc = pc /\ LwaStep(TRUE, Timeout))
    /\ WF_vars(call # Idle /\ call.pc = "relogin" /\ LwaStep(TRUE, [kind |-> "none"]))

SpecLoop == Init /\ [][NextLoop]_vars /\ LoopFairness

NextAnisette ==
    \/ \E provOk \in BOOLEAN, d \in ProviderDurations : GetHeaders(provOk, d)
    \/ \E d \in AniTickSteps : Tick(d, MaxAniTicks)

SpecAnisette == Init /\ [][NextAnisette]_vars

NextShared ==
    \/ \E i \in Tasks : TaskCall(i)
    \/ \E i \in Tasks : TaskAcquire(i)
    \/ \E i \in Tasks : TaskCheck(i)
    \/ \E i \in Tasks, provOk \in BOOLEAN, d \in ProviderDurations : TaskProvider(i, provOk, d)
    \/ \E i \in Tasks : TaskStamp(i)
    \/ \E d \in SharedTickSteps : Tick(d, MaxAniTicks)

SpecShared == Init /\ [][NextShared]_vars

NextCtx ==
    \/ \E certOk \in BOOLEAN : CtxNew(certOk)
    \/ \E infoOk \in BOOLEAN : CtxKeyEstablishment(infoOk)
    \/ \E signOk \in BOOLEAN : CtxSign(signOk)

SpecCtx == Init /\ [][NextCtx]_vars

NextAttest ==
    \/ \E relay \in BOOLEAN, fp \in {None} \cup {Some(f) : f \in Fingerprints} : GvdBegin(relay, fp)
    \/ \E o \in {"ok", "status", "error"}, presented \in Fingerprints : GvdRelay(o, presented)
    \/ \E o \in FetchOutcomes : GvdCert(o)
    \/ \E certOk \in BOOLEAN : GvdInit(certOk)
    \/ \E o \in FetchOutcomes : GvdSession(o)
    \/ \E infoOk \in BOOLEAN : GvdKeyEstablishment(infoOk)
    \/ \E signOk \in BOOLEAN : GvdSign(signOk)

SpecAttest == Init /\ [][NextAttest]_vars
(***************************************************************************)
(* Properties.                                                              *)
(***************************************************************************)

\* C1: when login_email_pass returns Ok, the LoginState it returns is fixed by
\* the `au` field of the response Status alone: absent gives LoggedIn,
\* "trustedDeviceSecondaryAuth" gives NeedsDevice2FA, "secondaryAuth" gives
\* NeedsSMS2FA, and any other string s gives NeedsExtraStep(s).
C1_StateFromAu ==
    (ret.op = "login_email_pass" /\ ret.tag = "Ok") =>
        LET au == ret.reply[1].au
            st == LS(ret.kind, ret.arg)
        IN  /\ IsNone(au) => st = LoggedIn
            /\ (IsSome(au) /\ au[1].str) =>
                  st = IF au[1].s = "trustedDeviceSecondaryAuth" THEN NeedsDevice2FA
                       ELSE IF au[1].s = "secondaryAuth" THEN NeedsSMS2FA
                       ELSE NeedsExtraStep(au[1].s)

\* a login answered with au = "secondaryAuth" has returned NeedsSMS2FA
C1_Witness ==
    /\ ret.op = "login_email_pass" /\ ret.tag = "Ok"
    /\ ret.reply[1].au = Some([str |-> TRUE, s |-> "secondaryAuth"])
    /\ ret.kind = "NeedsSMS2FA"

OnlyOfGrant(a, g) == \A s \in DOMAIN a.tokens : a.tokens[s].token = Tok(s, g)

\* C3: after every successful auth step (login_email_pass, verify_2fa,
\* verify_sms_2fa) the token store holds only tokens delivered by that step's
\* response; no entry from before the step survives, including when the
\* decrypted SPD of a login response has no `t` dictionary.
C3_StoreReplaced ==
    (ret.op \in {"login_email_pass", "verify_2fa", "verify_sms_2fa"} /\ ret.tag = "Ok") =>
        OnlyOfGrant(account, ret.reply[1].grant)

\* C4: after any login_email_pass call (completed, failed at the init or the
\* complete step, or abandoned at a suspension point) the SPD and the token
\* store are either both exactly as before the call or both taken from the
\* call's response, never one of the new grant and the other of the old.
C4_NeverTorn ==
    (ret.op = "login_email_pass" /\ ret.tag \in {"Ok", "Err", "Abandoned"}) =>
        \/ Held(account) = ret.before[1]
        \/ /\ ret.tag = "Ok"
           /\ IsSome(account.spd) /\ account.spd[1].grant = ret.reply[1].grant
           /\ OnlyOfGrant(account, ret.reply[1].grant)

\* C5: no read of the token store returns a token whose expiration has
\* passed: what get_token (also right after its re-login) and get_pet return
\* expires later than the instant of the return.
C5_ReadsUnexpired ==
    (ret.op \in {"get_token", "get_pet"} /\ ret.tag = "Ok" /\ IsSome(ret.entry)) =>
        Less(ret.at, ret.entry[1].expiration)

\* a verify_2fa or verify_sms_2fa call has returned Ok
VerifyOk == ret.op \in {"verify_2fa", "verify_sms_2fa"} /\ ret.tag = "Ok"

\* C6: a verify_2fa or verify_sms_2fa call the server accepted returns
\* LoggedIn if and only if the response carries an X-Apple-PE-Token header,
\* and NeedsLogin otherwise; when it returns LoggedIn the store holds for
\* com.apple.gs.idms.pet the token in field 1 of the header, expiring ttl
\* seconds after the call, ttl being field 2 or 300 when there is none.
C6_PetFromHeader ==
    VerifyOk =>
        LET pe == ret.reply[1].pe
            ttl == IF Len(pe[1]) >= 3 THEN pe[1][3].num[1] ELSE U64(<<300>>)
        IN  /\ ret.kind = "LoggedIn" <=> IsSome(pe)
            /\ IsNone(pe) => ret.kind = "NeedsLogin"
            /\ ret.kind = "LoggedIn" =>
                  /\ PetId \in DOMAIN account.tokens
                  /\ account.tokens[PetId].token = pe[1][2].txt
                  /\ account.tokens[PetId].expiration = Add(ret.at, Secs(ttl))

\* verify_sms_2fa, after the clock advanced, has stored a PET with no ttl field
C6_Witness ==
    /\ VerifyOk /\ ret.op = "verify_sms_2fa" /\ ret.kind = "LoggedIn"
    /\ Len(ret.reply[1].pe[1]) = 2
    /\ ret.at # Now0
    /\ account.tokens[PetId].token = Tok(PetId, 2)

\* the ttl field of the GS/HB header h as the operation op reads it
TtlOf(op, h) ==
    IF op = "verify_sms_2fa" /\ Len(h) >= 4 THEN Some(h[4])
    ELSE IF Len(h) >= 3 THEN Some(h[3])
    ELSE None

FortyYearsMs == U64(<<1, 261, 440, 000, 000>>)

\* the expiration the heuristic gives ttl value x at instant t
ExpectedExpiration(x, t) == IF Less(FortyYearsMs, x) THEN x ELSE Add(t, Secs(x))

\* C7: every GS/HB header parsed by verify_2fa or verify_sms_2fa with ttl x
\* is stored expiring at epoch + x milliseconds when x exceeds
\* 40*365*24*60*60*1000 and at now + x seconds otherwise, a missing ttl
\* counting as x = 31536000; the threshold is computed without overflow.
C7_TtlHeuristic ==
    /\ ~ThresholdOverflows
    /\ Threshold = FortyYearsMs
    /\ VerifyOk =>
          \A h \in {ret.reply[1].gs[i] : i \in 1..Len(ret.reply[1].gs)}
                 \cup {ret.reply[1].hb[i] : i \in 1..Len(ret.reply[1].hb)} :
              LET ttl == TtlOf(ret.op, h)
                  x == IF IsSome(ttl) THEN ttl[1].num[1] ELSE U64(<<31, 536, 000>>)
              IN  /\ h[1].txt \in DOMAIN account.tokens
                  /\ account.tokens[h[1].txt].expiration = ExpectedExpiration(x, ret.at)

\* verify_2fa has stored a GS token whose ttl is one more than the threshold
C7_Witness ==
    /\ VerifyOk /\ ret.op = "verify_2fa"
    /\ Len(ret.reply[1].gs) = 1 /\ Len(ret.reply[1].gs[1]) = 3
    /\ ret.reply[1].gs[1][3].num = Some(Add(FortyYearsMs, One))
    /\ account.tokens[GsId].expiration = Add(FortyYearsMs, One)

\* C8: a ttl exactly equal to 40*365*24*3600*1000 = 1,261,440,000,000 is
\* classified by verify_2fa and verify_sms_2fa as an absolute timestamp in
\* epoch milliseconds, not as a duration in seconds.
C8_BoundaryAbsolute ==
    VerifyOk =>
        \A h \in {ret.reply[1].gs[i] : i \in 1..Len(ret.reply[1].gs)} :
            (IsSome(TtlOf(ret.op, h)) /\ TtlOf(ret.op, h)[1].num = Some(FortyYearsMs)) =>
                account.tokens[h[1].txt].expiration = FortyYearsMs

Drivers == {"login_with_anisette", "login_start", "submit_2fa"}

\* the driver that returned ended the login as a success
EndedInSuccess ==
    /\ ret.tag = "Ok"
    /\ ret.op = "login_start" => ret.arg = Some(FALSE)
    /\ ret.op = "submit_2fa" => ret.arg = Some(TRUE)

\* the driver that returned failed with the reason of the extra step
FailedWith(reason) ==
    /\ ret.tag = "Err"
    /\ ret.op = "login_with_anisette" => ret.kind = "ExtraStep" /\ ret.arg = Some(reason)
    /\ ret.op = "login_start" =>
          ret.kind = "GenericError" /\ ret.arg = Some(<<"Login requires extra step", reason>>)

\* C9: a login driver (login_with_anisette, login_start, submit_2fa) that
\* observes NeedsExtraStep(reason) ends there: as a success if and only if
\* the token store holds a PET at that moment, otherwise as a failure that
\* carries the reason; it sends no further login or 2FA request.
C9_ExtraStepEnds ==
    /\ (call # Idle /\ IsSome(call.observed)) => call.observed[1].kind # "NeedsExtraStep"
    /\ (ret.op \in Drivers /\ IsSome(ret.observed)
          /\ ret.observed[1].kind = "NeedsExtraStep") =>
          /\ EndedInSuccess <=> IsSome(GetPet(account))
          /\ ~EndedInSuccess => FailedWith(ret.observed[1].arg[1])

\* login_with_anisette met NeedsExtraStep("repair") holding a PET and returned Ok
C9_Witness ==
    /\ ret.op = "login_with_anisette" /\ ret.tag = "Ok"
    /\ ret.observed = Some(NeedsExtraStep("repair"))
    /\ IsSome(GetPet(account))

\* more than 60 seconds lie between the last successful generation of client c
\* and the instant t; a client that never generated counts as stale
Outdated(c, t) == c.generated = 0 \/ Less(Add(c.generated_at, Secs(U64(<<60>>))), t)

\* C10: get_headers invokes the provider if and only if more than 60 seconds
\* have elapsed since the last successful generation (a fresh client never
\* generated); otherwise it returns the cached headers, which are then at
\* most 60 seconds old, without invoking the provider; and the cache changes
\* only inside a get_headers call that invokes the provider.
C10_LazyCache ==
    [][ /\ anisette' # anisette =>
              /\ ret'.op = "get_headers" /\ ret'.invoked
              /\ ret'.before = anisette /\ ret'.entered = now
        /\ ret'.op = "get_headers" =>
              /\ ret'.invoked <=> Outdated(ret'.before, ret'.entered)
              /\ ~ret'.invoked =>
                    /\ ret'.headers = Some(ret'.before.cached_headers)
                    /\ anisette' = ret'.before
                    /\ Leq(ret'.entered, Add(ret'.before.generated_at, Secs(U64(<<60>>))))
      ]_vars

\* headers generated exactly 60 seconds earlier were returned from the cache
C10_Witness ==
    /\ ret.op = "get_headers" /\ ~ret.invoked
    /\ ret.before.generated >= 1
    /\ ret.entered = Add(ret.before.generated_at, Secs(U64(<<60>>)))
    /\ ret.headers = Some(HeaderSet(ret.before.invoked))

\* C11: over any sequence of get_headers calls on one AnisetteClient the
\* provider is invoked at most once within any 60-second window, whether its
\* invocations succeed or fail: two successive invocations lie at least 60
\* seconds apart.
C11_InvocationsSpaced ==
    [][ (anisette'.invoked > anisette.invoked /\ IsSome(anisette.invoked_at)) =>
            Leq(Add(anisette.invoked_at[1], Secs(U64(<<60>>))), anisette'.invoked_at[1])
      ]_vars

InGetHeaders(i) == tasks[i].pc \in {"locked", "provider", "stored"}

MutualExclusion == \A i, j \in Tasks : (InGetHeaders(i) /\ InGetHeaders(j)) => i = j

NoTornObservation ==
    \A i \in Tasks : IsSome(tasks[i].seen) =>
        tasks[i].seen[1].headers = HeadersOfRefresh(tasks[i].seen[1].stamped)

\* task i invokes the provider no later than 60 seconds after it made its call
InvokesInWindow(i) ==
    /\ tasks[i].pc = "locked"
    /\ tasks'[i].pc = "provider"
    /\ Leq(now, Add(tasks[i].called_at[1], Secs(U64(<<60>>))))

\* task i is answered from the cache after another task invoked the provider
\* during i's call
AnsweredFromCache(i) ==
    /\ tasks[i].pc = "locked"
    /\ tasks'[i].pc = "done"
    /\ anisette.invoked > tasks[i].inv0

\* C12: tasks sharing one ArcAnisetteClient that call get_headers concurrently
\* while the cache is stale are mutually exclusive, none observes a header set
\* and a generation time of different refreshes, the provider is invoked by
\* one of them only (no task invokes it within 60 seconds of its call when
\* another task has invoked it since that call), and the others return the
\* headers that invocation stored.
C12_SharedRefresh ==
    /\ [](MutualExclusion /\ NoTornObservation)
    /\ [][ \A i \in Tasks :
             /\ InvokesInWindow(i) => anisette.invoked = tasks[i].inv0
             /\ AnsweredFromCache(i) =>
                    tasks'[i].out = TaskOk(HeaderSet(anisette.invoked))
         ]_vars

\* key_establishment has succeeded on the context with calls h
Established(h) == \E k \in 1..Len(h) : h[k] = <<"key_establishment", TRUE>>

\* sign has already been called on the context after its key establishment
Consumed(h) ==
    \E j, k \in 1..Len(h) : j < k /\ h[j] = <<"key_establishment", TRUE>> /\ h[k][1] = "sign"

\* C13: sign on a ValidationCtx whose key_establishment has not succeeded, or
\* that sign has already consumed, fails with the attestation error and
\* returns no validation data; validation data comes only from the first sign
\* after a successful new and a successful key_establishment, and is that
\* context's.
C13_SignOnlyOnce ==
    ret.op = "sign" =>
        LET c == ret.before[1]
        IN  /\ (~Established(c.hist) \/ Consumed(c.hist)) =>
                    /\ ret.tag = "Err"
                    /\ ret.kind = "AbsintheError"
                    /\ IsNone(ret.data)
            /\ IsSome(ret.data) =>
                    /\ Established(c.hist)
                    /\ ~Consumed(c.hist)
                    /\ ret.data = Some(c.id)

C13_Witness ==
    /\ ret.op = "sign"
    /\ ret.tag = "Err"
    /\ Consumed(ret.before[1].hist)
    /\ ret.before[1].hist[2] = <<"sign", TRUE>>

StepOrder == <<"cert", "init", "session", "key_establishment", "sign">>

\* the recorded steps are the first steps of the order, each once, and those
\* that use a context use the one this call created
InOrder(steps, made0) ==
    /\ Len(steps) <= Len(StepOrder)
    /\ \A k \in 1..Len(steps) :
          /\ steps[k].step = StepOrder[k]
          /\ (k >= 2 /\ IsSome(steps[k].ctx)) => steps[k].ctx = Some(made0 + 1)

\* C14: without a relay URL a generate_validation_data call performs
\* certificate fetch, ValidationCtx::new, session-info exchange,
\* key_establishment and sign in that order, each once, on a context created
\* by this call and used by no other; it returns validation data only after
\* all five, and a step that fails makes the call return an error at once,
\* with no later step performed and no validation data.
C14_StepsInOrder ==
    /\ InOrder(nac.run.steps, nac.run.made0)
    /\ (ret.op = "generate_validation_data" /\ ~ret.relay) =>
            /\ InOrder(ret.steps, ret.made0)
            /\ ret.tag \in {"Ok", "Err"}
            /\ ret.tag = "Ok" =>
                    /\ Len(ret.steps) = Len(StepOrder)
                    /\ ret.data = Some(ret.made0 + 1)
            /\ ret.tag = "Err" => IsNone(ret.data)

\* the error kinds under which login_email_pass surfaces a server rejection of
\* the credentials (a response with ec # 0)
CredentialRejectionKinds == {ReplyFailure(r).kind : r \in {x \in FailedReplies : x.kind = "status"}}

\* the last call was a verify call whose request was sent and whose code the
\* server rejected
CodeRejected ==
    /\ ret.op \in {"verify_2fa", "verify_sms_2fa"}
    /\ IsSome(account.spd)
    /\ ret.reply[1].kind = "reply"
    /\ \/ ret.op = "verify_2fa" /\ ret.reply[1].body = "status"
       \/ ret.op = "verify_sms_2fa" /\ ret.reply[1].http # 200

\* C15: a 2FA code rejected by the server in verify_2fa or verify_sms_2fa
\* surfaces as an error of another kind than a rejection of the credentials
\* in login_email_pass does.
C15_RejectionsDistinct ==
    CodeRejected => (ret.tag = "Err" /\ ret.kind \notin CredentialRejectionKinds)

\* login_email_pass has returned, and the response it consumed carried ec # 0
LoginRejected ==
    /\ ret.op = "login_email_pass"
    /\ ret.tag # "Abandoned"
    /\ IsSome(ret.reply)
    /\ ret.reply[1].kind = "status"

\* C16: when the init response or the complete response of login_email_pass
\* carries ec # 0, the call returns AuthSrpWithMessage with that ec and the
\* server's em, and stops: after a failing init only the init request has been
\* sent, and SPD and token store are those the caller had before the call.
C16_ProtocolErrorStops ==
    LoginRejected =>
        /\ ret.tag = "Err"
        /\ ret.kind = "AuthSrpWithMessage"
        /\ ret.arg = Some(<<ret.reply[1].ec, ret.reply[1].em>>)
        /\ ret.stage \in {"init", "complete"}
        /\ ret.reqs = IF ret.stage = "init" THEN 1 ELSE 2
        /\ Held(account) = ret.before[1]

C16_Witness ==
    /\ LoginRejected
    /\ ret.stage = "complete"
    /\ ret.reply[1].ec = -22406
    /\ IsSome(ret.before[1].spd)

SecondFactorOps ==
    {"send_2fa_to_devices", "send_sms_2fa_to_devices", "verify_2fa", "verify_sms_2fa"}

\* C17: a 2FA operation called on a session that holds no SPD returns the
\* error MissingPrecondition to its caller as a value, and leaves the account
\* and the server's grants as they were.
C17_MissingSpdIsError ==
    [][ (IsNone(account.spd) /\ ret' # ret /\ ret'.op \in SecondFactorOps) =>
            /\ ret'.tag = "Err"
            /\ ret'.kind = "MissingPrecondition"
            /\ account' = account
            /\ grants' = grants
      ]_vars

\* login_email_pass has returned on a complete response whose M2 is not the
\* proof the client expects
ProofRefused ==
    /\ ret.op = "login_email_pass"
    /\ ret.tag # "Abandoned"
    /\ ret.stage = "complete"
    /\ ret.reply[1].kind = "ok"
    /\ ~ret.reply[1].m2ok

\* C18: when the server's proof M2 does not match, login_email_pass returns
\* the error ProofMismatch as a value, and SPD and token store are those held
\* before the call.
C18_ProofMismatchIsError ==
    ProofRefused =>
        /\ ret.tag = "Err"
        /\ ret.kind = "ProofMismatch"
        /\ Held(account) = ret.before[1]

\* the trusted-device push request got a success status
PushSucceeded(reply) == reply.kind = "http" /\ reply.http >= 200 /\ reply.http <= 299

\* C20: on a session that holds an SPD, send_2fa_to_devices returns
\* Needs2FAVerification exactly when the trusted-device push request gets a
\* success status, fails with the transport error (ReqwestError) on every
\* other outcome, and leaves SPD, tokens and stored credentials unchanged.
C20_PushOutcome ==
    [][ (IsSome(account.spd) /\ ret' # ret /\ ret'.op = "send_2fa_to_devices") =>
            /\ (ret'.tag = "Ok" /\ LS(ret'.kind, ret'.arg) = Needs2FAVerification)
                    <=> PushSucceeded(ret'.reply[1])
            /\ ~PushSucceeded(ret'.reply[1]) =>
                    (ret'.tag = "Err" /\ ret'.kind = "ReqwestError")
            /\ account' = account
      ]_vars

\* C19: verify_sms_2fa fails with Bad2faCode for every response whose HTTP
\* status is not 200, and then leaves the token store and the SPD unchanged.
C19_Non200IsBadCode ==
    [][ ( /\ IsSome(account.spd)
          /\ ret' # ret
          /\ ret'.op = "verify_sms_2fa"
          /\ ret'.reply[1].kind = "reply"
          /\ ret'.reply[1].http # 200 ) =>
            /\ ret'.tag = "Err"
            /\ ret'.kind = "Bad2faCode"
            /\ Held(account') = Held(account)
      ]_vars

\* C21: the body verify_sms_2fa sends is the body the caller passes with only
\* the security code added, the value returned in NeedsSMS2FAVerification by
\* send_sms_2fa_to_devices(id) is the request of phone id in mode "sms"
\* without a code, and the account keeps no copy of it.
C21_PendingRequestEchoed ==
    /\ DOMAIN account = {"spd", "username", "tokens", "hashed_password"}
    /\ (ret.op = "send_sms_2fa_to_devices" /\ ret.tag = "Ok") =>
            ret.arg = Some([phone_number |-> ret.args[1][1], mode |-> "sms",
                            security_code |-> None])
    /\ (ret.op = "verify_sms_2fa" /\ IsSome(ret.sent)) =>
            LET code == ret.args[1][1]
                pendingRequest == ret.args[1][2]
            IN  /\ ret.sent[1].phone_number = pendingRequest.phone_number
                /\ ret.sent[1].mode = pendingRequest.mode
                /\ ret.sent[1].security_code = Some(code)

C21_Witness ==
    /\ ret.op = "verify_sms_2fa"
    /\ IsSome(ret.sent)
    /\ ret.args[1][2] = VerifyBody(2, None)
    /\ ret.tag = "Ok"

\* the field at 0-based position 3 for verify_sms_2fa, at position 2 for verify_2fa
TtlAtOwnPosition(op, h) ==
    LET i == IF op = "verify_sms_2fa" THEN 3 ELSE 2
    IN  IF Len(h) >= i + 1 THEN Some(h[i + 1]) ELSE None

\* C22: verify_sms_2fa takes the ttl of each GS/HB header from field position
\* 3, verify_2fa from position 2, and both store the token with the same
\* absolute-or-relative heuristic, a header without that field counting as
\* one year.
C22_SmsTtlPositionThree ==
    VerifyOk =>
        \A h \in {ret.reply[1].gs[i] : i \in 1..Len(ret.reply[1].gs)}
               \cup {ret.reply[1].hb[i] : i \in 1..Len(ret.reply[1].hb)} :
            LET ttl == TtlAtOwnPosition(ret.op, h)
                x == IF IsSome(ttl) THEN ttl[1].num[1] ELSE U64(<<31, 536, 000>>)
            IN  /\ h[1].txt \in DOMAIN account.tokens
                /\ account.tokens[h[1].txt].expiration = ExpectedExpiration(x, ret.at)

\* C22, amended: verify_sms_2fa takes the ttl of each GS/HB header from field
\* position 3 when the header has one, from position 2 when it has only
\* that, and counts a header with neither as one year; the token is stored
\* with the absolute-or-relative heuristic of verify_2fa.
C22_SmsTtlThreeThenTwo ==
    (VerifyOk /\ ret.op = "verify_sms_2fa") =>
        \A h \in {ret.reply[1].gs[i] : i \in 1..Len(ret.reply[1].gs)}
               \cup {ret.reply[1].hb[i] : i \in 1..Len(ret.reply[1].hb)} :
            LET x == IF Len(h) >= 4 THEN h[4].num[1]
                     ELSE IF Len(h) = 3 THEN h[3].num[1]
                     ELSE U64(<<31, 536, 000>>)
            IN  /\ h[1].txt \in DOMAIN account.tokens
                /\ account.tokens[h[1].txt].expiration = ExpectedExpiration(x, ret.at)

\* verify_sms_2fa has stored an HB token from a header ID:TOKEN:60:EXP
C22_Witness ==
    /\ VerifyOk /\ ret.op = "verify_sms_2fa"
    /\ Len(ret.reply[1].hb) = 1 /\ Len(ret.reply[1].hb[1]) = 4
    /\ ret.reply[1].hb[1][3].num = Some(U64(<<60>>))
    /\ account.tokens[HbId].expiration = AbsFuture

\* this step is a call of get_token
GetTokenStep ==
    /\ call = Idle
    /\ \/ call' # Idle /\ call'.op = "get_token"
       \/ ret' # ret /\ ret'.op = "get_token"

\* the service asked for, and whether the call went into login_email_pass
AskedService == IF call' # Idle THEN call'.svc ELSE ret'.svc

Relogged == IF call' # Idle THEN call'.logins = 1 ELSE ret'.logins = 1

HasCredentials == IsSome(account.username) /\ IsSome(account.hashed_password)

HasUnexpired(id) == id \in DOMAIN account.tokens /\ NotElapsed(account.tokens[id], now)

\* C23: whenever get_token(serviceId) finds no unexpired token for serviceId
\* in the store, also when the store holds tokens of other services only, it
\* goes into the re-login with the stored credentials.
C23_ReloginWheneverMissing ==
    [][ (GetTokenStep /\ HasCredentials /\ ~HasUnexpired(AskedService)) => Relogged ]_vars

\* C23, amended: get_token(serviceId) goes into the re-login exactly when
\* credentials are stored and either the store is empty or its entry for
\* serviceId has expired; when the store holds tokens but none for serviceId
\* it returns None without a re-login.
C23_ReloginUnlessAbsent ==
    [][ GetTokenStep =>
            /\ Relogged <=>
                    /\ HasCredentials
                    /\ \/ DOMAIN account.tokens = {}
                       \/ /\ AskedService \in DOMAIN account.tokens
                          /\ ~NotElapsed(account.tokens[AskedService], now)
            /\ (DOMAIN account.tokens # {} /\ AskedService \notin DOMAIN account.tokens) =>
                    (call' = Idle /\ IsNone(ret'.value) /\ account' = account)
      ]_vars

\* get_token has returned None, without a re-login, from a store that holds
\* tokens of other services only
C23_Witness ==
    /\ ret.op = "get_token"
    /\ ret.logins = 0
    /\ IsNone(ret.value)
    /\ IsSome(account.username) /\ IsSome(account.hashed_password)
    /\ DOMAIN account.tokens # {}
    /\ ret.svc \notin DOMAIN account.tokens

(***************************************************************************)
(* C24.  The verify call a driver makes after a 2FA LoginState.             *)
(***************************************************************************)
SecondFactorStates == {"NeedsDevice2FA", "NeedsSMS2FA"}

\* the driver record d (a frame or a returned value) made a verify call after
\* login_email_pass handed it a 2FA state
VerifiedAfter2fa(d) ==
    /\ d.op \in Drivers
    /\ IsSome(d.asked) /\ d.asked[1] \in SecondFactorStates
    /\ IsSome(d.verified)

\* the verify call of d is verify_sms_2fa with the pendingRequest that
\* send_sms_2fa_to_devices returned
VerifiedBySms(d) ==
    /\ d.verified[1].op = "verify_sms"
    /\ IsSome(d.pending)
    /\ d.verified[1].body = d.pending

OwnVerify(d) ==
    VerifiedAfter2fa(d) =>
        /\ d.asked[1] = "NeedsDevice2FA" => d.verified[1].op = "verify_2fa"
        /\ d.asked[1] = "NeedsSMS2FA" => VerifiedBySms(d)

DriversVerify(d) ==
    VerifiedAfter2fa(d) =>
        /\ d.op = "login_with_anisette" =>
                /\ VerifiedBySms(d)
                /\ d.pending = Some(VerifyBody(1, None))
        /\ d.op = "submit_2fa" => d.verified[1].op = "verify_2fa"

\* C24: a driver verifies the code with verify_2fa after NeedsDevice2FA and
\* with verify_sms_2fa, on the pendingRequest of the SMS request, after
\* NeedsSMS2FA.
C24_EachStateItsOwnVerify == OwnVerify(call) /\ OwnVerify(ret)

\* C24, amended: the verify call depends on the driver, not on which of the
\* two 2FA states was returned: login_with_anisette verifies with
\* verify_sms_2fa on the pendingRequest of send_sms_2fa_to_devices(1), and
\* submit_2fa verifies with verify_2fa.
C24_VerifyByDriver == DriversVerify(call) /\ DriversVerify(ret)

\* both drivers have verified a code after the state the other one's verify
\* call is named for
C24_Witness ==
    /\ VerifiedAfter2fa(ret)
    /\ \/ ret.op = "login_with_anisette" /\ ret.asked[1] = "NeedsDevice2FA"
       \/ ret.op = "submit_2fa" /\ ret.asked[1] = "NeedsSMS2FA"

(***************************************************************************)
(* C25.  The expiration of the tokens login_email_pass stores from the      *)
(* `t` dictionary of the SPD.                                               *)
(***************************************************************************)
\* login_email_pass has returned Ok on a response whose SPD has a `t` dictionary
StoredFromT ==
    /\ ret.op = "login_email_pass" /\ ret.tag = "Ok"
    /\ IsSome(ret.reply) /\ ret.reply[1].kind = "ok"
    /\ "t" \in DOMAIN ret.reply[1] /\ IsSome(ret.reply[1].t)

TOfReply == ret.reply[1].t[1]

IsUInt(v) == IsSome(v) /\ v[1] # NotUInt

\* C25: a stored token's expiration is epoch + expiry ms when its entry has
\* an expiry, and now + duration seconds otherwise; an entry with no token or
\* with neither expiry nor duration is not stored, an entry with a token and
\* a usable expiry or duration is, and nothing else is in the store.
C25_StoredExpiration ==
    StoredFromT =>
        /\ DOMAIN account.tokens \subseteq DOMAIN TOfReply
        /\ \A s \in DOMAIN TOfReply :
              LET e == TOfReply[s]
              IN  /\ (IsNone(e.token) \/ (IsNone(e.expiry) /\ IsNone(e.duration)))
                        => s \notin DOMAIN account.tokens
                  /\ (/\ e.isdict /\ IsSome(e.token)
                      /\ \/ IsUInt(e.expiry)
                         \/ IsNone(e.expiry) /\ IsUInt(e.duration))
                        => s \in DOMAIN account.tokens
                  /\ s \in DOMAIN account.tokens =>
                        /\ account.tokens[s].token = e.token[1]
                        /\ account.tokens[s].expiration =
                              IF IsSome(e.expiry) THEN e.expiry[1]
                              ELSE Add(ret.at, Secs(e.duration[1]))

\* an entry with both an expiry and a duration has been stored
C25_Witness ==
    /\ StoredFromT
    /\ \E s \in DOMAIN TOfReply \cap DOMAIN account.tokens :
          IsSome(TOfReply[s].expiry) /\ IsSome(TOfReply[s].duration)

(***************************************************************************)
(* C26.  The PBKDF2 password input of login_email_pass.                     *)
(***************************************************************************)
\* login_email_pass has derived the PBKDF2 input from the init response
Derived == call # Idle /\ call.pc = "complete" /\ IsSome(call.password_for_srp)

\* lowercase hex of bytes bs: two characters a byte, high nibble first
IsLowerHexOf(hex, bs) ==
    /\ Len(hex) = 2 * Len(bs)
    /\ \A i \in 1..Len(bs) :
          LET LowerHexValue(c) == IF c >= 48 /\ c <= 57 THEN c - 48
                             ELSE IF c >= 97 /\ c <= 102 THEN c - 87 ELSE -1
          IN  /\ LowerHexValue(hex[2 * i - 1]) >= 0 /\ LowerHexValue(hex[2 * i]) >= 0
              /\ 16 * LowerHexValue(hex[2 * i - 1]) + LowerHexValue(hex[2 * i]) = bs[i]

\* C26: the PBKDF2 password input is the lowercase hex encoding of the
\* pre-hashed password bytes if and only if the server selected sp = "s2k_fo";
\* otherwise, for sp = "s2k" in particular, it is the pre-hashed bytes.
C26_HexOnlyForS2kFo ==
    Derived =>
        /\ IsLowerHexOf(call.password_for_srp[1], call.p) <=> call.res[1].sp = Some("s2k_fo")
        /\ call.res[1].sp # Some("s2k_fo") => call.password_for_srp[1] = call.p
        /\ call.res[1].sp = Some("s2k") => call.password_for_srp[1] = call.p

\* the server selected s2k_fo and the input is the hex text "0aff3c"
C26_Witness ==
    /\ Derived
    /\ call.res[1].sp = Some("s2k_fo")
    /\ call.p = <<10, 255, 60>>
    /\ call.password_for_srp[1] = <<48, 97, 102, 102, 51, 99>>

(***************************************************************************)
(* C27.  The bundle of finish, restored by restore_token_provider.          *)
(***************************************************************************)
Restored == ret.op = "restore_token_provider" /\ ret.tag = "Ok"

\* C27: the account restored from the bundle of finish has the username, the
\* pre-hashed password, the SPD and the PET token string of the account
\* finish built the bundle from.
C27_BundleRoundTrips ==
    Restored =>
        /\ account.username = ret.built.username
        /\ account.hashed_password = ret.built.hashed_password
        /\ account.spd = ret.built.spd
        /\ IsSome(GetPet(account))
        /\ GetPet(account)[1].token = GetPet(ret.built)[1].token

(***************************************************************************)
(* C28.  The relay whose validation data is accepted.                       *)
(***************************************************************************)
\* generate_validation_data returned data from the relay path with a
\* fingerprint configured
RelayDataPinned ==
    /\ ret.op = "generate_validation_data" /\ ret.relay
    /\ IsSome(ret.relay_cert_fp)
    /\ ret.tag = "Ok" /\ IsSome(ret.data)

\* C28: with relay_cert_fp configured, validation data is returned on the
\* relay path only when the certificate the server presented has that
\* fingerprint.
C28_OnlyPinnedRelay == RelayDataPinned => ret.peer = ret.relay_cert_fp

(***************************************************************************)
(* C29.  Termination of login_with_anisette.                                *)
(***************************************************************************)
InLoginWithAnisette == call # Idle /\ call.op = "login_with_anisette"

\* C29: when every network call returns, a call of login_with_anisette
\* returns, whatever the server answers.
C29_LoginWithAnisetteReturns == InLoginWithAnisette ~> (call = Idle)

(***************************************************************************)
(* C30.  The LoginStates each session operation returns.                    *)
(***************************************************************************)
SessionOps ==
    {"login_email_pass", "send_2fa_to_devices", "send_sms_2fa_to_devices",
     "verify_2fa", "verify_sms_2fa"}

ReturnedStates(op) ==
    CASE op = "login_email_pass" ->
              {"LoggedIn", "NeedsDevice2FA", "NeedsSMS2FA", "NeedsExtraStep"}
      [] op = "send_2fa_to_devices" -> {"Needs2FAVerification"}
      [] op = "send_sms_2fa_to_devices" -> {"NeedsSMS2FAVerification"}
      [] op \in {"verify_2fa", "verify_sms_2fa"} -> {"LoggedIn", "NeedsLogin"}

ReturnedOk(op, kind) == ret.op = op /\ ret.tag = "Ok" /\ ret.kind = kind

\* C30: a session operation that returns a LoginState returns one of its own
\* set: login_email_pass LoggedIn, NeedsDevice2FA, NeedsSMS2FA or
\* NeedsExtraStep; send_2fa_to_devices Needs2FAVerification;
\* send_sms_2fa_to_devices NeedsSMS2FAVerification; verify_2fa and
\* verify_sms_2fa LoggedIn or NeedsLogin.
C30_StatesByOperation ==
    (ret.op \in SessionOps /\ ret.tag = "Ok") => ret.kind \in ReturnedStates(ret.op)

\* send_2fa_to_devices has returned its state to an account that a login
\* left with an SPD
C30_Witness ==
    /\ ReturnedOk("send_2fa_to_devices", "Needs2FAVerification")
    /\ IsSome(account.spd)

(***************************************************************************)
(* C31.  What a failing login_email_pass leaves in the account.             *)
(***************************************************************************)
\* login_email_pass, called directly, returns a failure from the stage it is at
LoginFailsAt(stage) ==
    /\ call # Idle /\ call.op = "login_email_pass" /\ call.pc = stage
    /\ call' = Idle
    /\ ret'.tag \in {"Err", "Panic"}

\* login_email_pass is called directly
LoginCalled ==
    /\ call = Idle
    /\ \/ call' # Idle /\ call'.op = "login_email_pass"
       \/ call' = Idle /\ ret' # ret /\ ret'.op = "login_email_pass"

UsernameSupplied == IF call' # Idle THEN call'.u ELSE account'.username[1]

\* C31: the supplied username is stored before the server is contacted and
\* the supplied password once the init step succeeded: a login failing at
\* the complete step leaves the credentials of that attempt with the SPD and
\* tokens of before the call, and one failing at the init step has changed
\* the username only.
C31_CredentialsOfFailedAttempt ==
    [][ /\ LoginCalled =>
              /\ IsSome(account'.username)
              /\ account' = [account EXCEPT !.username = Some(UsernameSupplied)]
        /\ LoginFailsAt("init") =>
              /\ account' = account
              /\ account.username = Some(call.u)
              /\ Held(account) = call.before[1]
        /\ (call # Idle /\ call.op = "login_email_pass" /\ call.pc = "init"
                /\ call' # Idle /\ call'.pc = "complete") =>
              account' = [account EXCEPT !.hashed_password = Some(call.p)]
        /\ LoginFailsAt("complete") =>
              /\ account'.username = Some(call.u)
              /\ account'.hashed_password = Some(call.p)
              /\ Held(account') = call.before[1]
      ]_vars

(***************************************************************************)
(* C32.  The store after a verification that returns NeedsLogin.            *)
(***************************************************************************)
VerifyNeedsLogin ==
    /\ ret.op \in {"verify_2fa", "verify_sms_2fa"}
    /\ ret.tag = "Ok" /\ ret.kind = "NeedsLogin"

\* the ids of the X-Apple-GS-Token and X-Apple-HB-Token headers of a reply
HeaderIds(r) == {(r.gs \o r.hb)[i][1].txt : i \in 1..Len(r.gs \o r.hb)}

\* C32: after verify_2fa or verify_sms_2fa returned NeedsLogin the store is
\* exactly the one collected from the GS and HB headers of that response,
\* whatever it held before the call, and get_pet finds nothing.
C32_StoreOfThatResponse ==
    VerifyNeedsLogin =>
        /\ account.tokens = CollectTokens(ret.reply[1].gs \o ret.reply[1].hb,
                                          ret.op = "verify_sms_2fa", ret.at)
        /\ DOMAIN account.tokens = HeaderIds(ret.reply[1])
        /\ \A id \in DOMAIN account.tokens :
              account.tokens[id].token = Tok(id, ret.reply[1].grant)
        /\ GetPet(account) = None

\* NeedsLogin was returned to an account whose store held the PET of an
\* earlier grant
C32_Witness ==
    /\ VerifyNeedsLogin
    /\ PetId \in DOMAIN ret.before[1].tokens
    /\ ret.before[1].tokens[PetId].token # Tok(PetId, ret.reply[1].grant)

(***************************************************************************)
(* C33.  A provider failure during AnisetteClient::get_headers.             *)
(***************************************************************************)
\* the step is a get_headers call
GetHeadersCalled == ret'.op = "get_headers" /\ (ret' # ret \/ anisette' # anisette)

\* the latest invocation of the provider failed
RefreshFailed(c) == c.invoked > c.stamped

\* C33: a get_headers whose provider fails returns the error and leaves
\* cached_headers and generated_at as they were; while the latest invocation
\* is a failed one the cache is outdated, so the next get_headers invokes the
\* provider again and never answers from the cache.
C33_FailedRefreshKeepsCache ==
    /\ [](RefreshFailed(anisette) => NeedsGeneration(anisette, now))
    /\ [][ GetHeadersCalled =>
              /\ ret'.tag = "Err" <=> (ret'.invoked /\ RefreshFailed(anisette'))
              /\ ret'.tag = "Err" =>
                    /\ ret'.headers = None
                    /\ anisette'.cached_headers = anisette.cached_headers
                    /\ anisette'.generated_at = anisette.generated_at
              /\ RefreshFailed(anisette) => ret'.invoked
         ]_vars

\* with a header set in the cache a refresh failed, and the next get_headers,
\* made later, invoked the provider again
C33_Witness ==
    /\ ret.op = "get_headers" /\ ret.invoked
    /\ RefreshFailed(ret.before)
    /\ ret.before.generated >= 1
    /\ ret.before.cached_headers # {}
    /\ Less(ret.before.invoked_at[1], ret.entered)

(***************************************************************************)
(* C34.  What login_start returns for each state of login_email_pass.       *)
(***************************************************************************)
TwoFactorStates ==
    {"Needs2FAVerification", "NeedsDevice2FA", "NeedsSMS2FA", "NeedsSMS2FAVerification"}

\* login_start returned a session whose needs_2fa is b
SessionReturned(b) == ret.tag = "Ok" /\ ret.arg = Some(b)

\* the step is the return of login_start
LoginStartReturns ==
    call # Idle /\ call.op = "login_start" /\ call' = Idle /\ ret'.op = "login_start"

\* login_start waits for its send_2fa_to_devices and the step hands it the result
PushAnswered == call # Idle /\ call.op = "login_start" /\ call.pc = "send_2fa" /\ call' # call

\* C34: login_start returns a session with needs_2fa = false exactly when
\* login_email_pass returned LoggedIn, or NeedsExtraStep with a PET in the
\* store, and one with needs_2fa = true for each of the four 2FA states; for
\* NeedsDevice2FA and NeedsSMS2FA it calls send_2fa_to_devices once, sending
\* at most that one request, and returns the session whatever the result.
C34_SessionOfLoginStart ==
    /\ [](ret.op = "login_start" =>
            /\ SessionReturned(FALSE) <=>
                  \/ ret.asked = Some("LoggedIn")
                  \/ ret.asked = Some("NeedsExtraStep") /\ IsSome(GetPet(account))
            /\ (IsSome(ret.asked) /\ ret.asked[1] \in TwoFactorStates) => SessionReturned(TRUE)
            /\ ret.tag = "Ok" => SessionReturned(FALSE) \/ SessionReturned(TRUE)
            /\ IsSome(ret.asked) =>
                  IF ret.asked[1] \in {"NeedsDevice2FA", "NeedsSMS2FA"}
                  THEN ret.reqs \in {2, 3} /\ IsSome(ret.reply) /\ ret.reply[1] \in SendReplies
                  ELSE ret.reqs = 2)
    /\ [][ /\ LoginStartReturns =>
                 IF ret'.tag = "Ok"
                 THEN /\ IsSome(session') /\ session'[1].held
                      /\ session'[1].needs_2fa = ret'.arg[1]
                 ELSE session' = session
            /\ PushAnswered =>
                 /\ LoginStartReturns
                 /\ ret'.tag = "Ok" /\ ret'.arg = Some(TRUE)
                 /\ ret'.reqs \in {call.reqs, call.reqs + 1}
                 /\ account' = account
         ]_vars

\* the push of login_start failed and the session was returned
C34_Witness ==
    /\ ret.op = "login_start"
    /\ ret.asked = Some("NeedsSMS2FA")
    /\ ret.reply[1].kind = "http" /\ ret.reply[1].http = 401
    /\ SessionReturned(TRUE)
    /\ IsSome(session) /\ session[1].needs_2fa

(***************************************************************************)
(* C35.  finish takes the account out of the session only when it succeeds. *)
(***************************************************************************)
NoActiveSession == Err("GenericError", Some(<<"No active session", "">>))

\* the step is a submit_2fa or a finish on the session
SessionCalled == ret' # ret /\ ret'.op \in {"submit_2fa", "finish"} /\ call' = Idle /\ call = Idle

Returned(r) == ret'.tag = r.tag /\ ret'.kind = r.kind /\ ret'.arg = r.arg

\* C35: finish takes the account out of the LoginSession exactly when it
\* returns Ok.  From then on every submit_2fa and finish on the session
\* returns the "No active session" error and sends no request; a finish that
\* returns an error leaves the account in the session with its SPD and tokens
\* as they were, and the next finish is served from it.
C35_ConsumedOnlyOnSuccess ==
    [][ (SessionCalled /\ IsSome(session)) =>
            /\ ~session[1].held =>
                  /\ Returned(NoActiveSession)
                  /\ ret'.reqs = 0
                  /\ UNCHANGED <<account, session>>
            /\ (session[1].held /\ ret'.op = "finish") =>
                  /\ ~Returned(NoActiveSession)
                  /\ account' = account
                  /\ session'[1].held <=> ret'.tag # "Ok"
                  /\ session'[1] = [session[1] EXCEPT !.held = session'[1].held,
                                                          !.failed = session'[1].failed]
      ]_vars

\* finish failed at the registration, was called again and succeeded, and
\* the submit_2fa that followed found no session
C35_Witness ==
    /\ ret.op = "submit_2fa"
    /\ ret.tag = "Err" /\ ret.arg = NoActiveSession.arg
    /\ IsSome(session) /\ ~session[1].held /\ session[1].failed = "Registration failed"

(***************************************************************************)
(* C37.  finish and the register endpoint.                                  *)
(***************************************************************************)
\* finish got as far as deciding between the existing and a new registration
Decided ==
    /\ ret.op = "finish"
    /\ ret.tag = "Ok" \/ ret.arg = Some(<<"Registration failed", "">>)

HasExisting == IsSome(ret.existing_users) /\ ret.existing_users[1] # <<>>

\* the com.apple.madrid registration of the first existing user has a
\* positive re-registration time
StillRegistered ==
    /\ HasExisting
    /\ \E t \in 1..3600 : ret.existing_users[1][1].madrid = Some(Some(t))

\* C37: a call of finish calls register at most once.  With existing users
\* whose first user's com.apple.madrid registration has a positive
\* re-registration time it does not call it, and returns the existing users
\* with the auth keypair of the first replaced by the fresh one and nothing
\* else changed; with existing users in any other case it registers the
\* fresh user.
C37_RegisterAtMostOnce ==
    ret.op = "finish" =>
        /\ ret.registers \in {0, 1}
        /\ ~Decided => ret.registers = 0
        /\ (Decided /\ StillRegistered) =>
              /\ ret.registers = 0 /\ ret.reqs = 2
              /\ ret.tag = "Ok"
              /\ Len(ret.users[1]) = Len(ret.existing_users[1])
              /\ ret.users[1][1] = [ret.existing_users[1][1] EXCEPT !.auth_keypair = "fresh"]
              /\ \A i \in 2..Len(ret.users[1]) : ret.users[1][i] = ret.existing_users[1][i]
        /\ (Decided /\ HasExisting /\ ~StillRegistered) =>
              /\ ret.registers = 1 /\ ret.reqs = 3
              /\ IsSome(ret.registered) /\ Len(ret.registered[1]) = 1
              /\ ret.registered[1][1].name = "fresh"
              /\ ret.tag = "Ok" => ret.users = ret.registered

\* finish returned two existing users, the keypair of the first replaced,
\* without a call of register
C37_Witness ==
    /\ Decided /\ StillRegistered
    /\ Len(ret.existing_users[1]) = 2
    /\ ret.existing_users[1][1].auth_keypair = "old"
    /\ ret.users[1][1].auth_keypair = "fresh"
    /\ ret.registers = 0

(***************************************************************************)
(* C36.  Concurrent submit_2fa and finish on one LoginSession.              *)
(***************************************************************************)
\* task i is between taking the guard and returning
InSession(i) == callers[i].pc \in {"verify_2fa", "delegates"}

FinishedOk == {i \in Callers : callers[i].op = "finish" /\ callers[i].pc = "done"
                                  /\ callers[i].out[1].tag = "Ok"}

\* C36: the calls of submit_2fa and finish made concurrently on one
\* LoginSession hold the account mutex from their first look at the account
\* to their return: no two are inside at once, while one is inside between
\* two of its steps nothing changes the account or the session, and of all
\* finish calls at most one returns Ok.
C36_CallsSerialized ==
    /\ [](/\ \A i, j \in Callers : (InSession(i) /\ InSession(j)) => i = j
          /\ \A i \in Callers : InSession(i) => guard = Some(i)
          /\ Cardinality(FinishedOk) <= 1
          /\ FinishedOk # {} => ~session[1].held)
    /\ [][ \A i \in Callers :
             /\ (InSession(i) /\ callers'[i] = callers[i]) => UNCHANGED <<account, session>>
             /\ (callers[i].pc = "delegates" /\ callers'[i].pc = "done"
                    /\ callers'[i].out[1].tag = "Ok") =>
                    callers[i].persist = Some(AccountPersistData(session[1], account))
         ]_vars

\* two finish calls and a submit_2fa were made at once: one finish returned
\* Ok, the other the error of a session without account, and the third task
\* is still waiting for the mutex
C36_Witness ==
    /\ \E i, j, k \in Callers :
          /\ i \in FinishedOk
          /\ callers[j].op = "finish" /\ callers[j].pc = "done"
          /\ callers[j].out[1].tag = "Err"
          /\ callers[k].op = "submit_2fa" /\ callers[k].pc = "waiting"

(***************************************************************************)
(* C38.  The SMS retry of send_message and send_attachment.                 *)
(***************************************************************************)
SendOps == {"send_message", "send_attachment"}

\* the first send failed with NoValidTargets in a conversation that is not SMS
FellBack(f) ==
    /\ Len(f.sends) >= 1
    /\ f.sends[1].result = Some("NoValidTargets")
    /\ ~f.is_sms

\* C38: send_message and send_attachment hand at most two messages to send.
\* The second is sent exactly when the first failed with NoValidTargets and
\* the conversation is not SMS; it is an SMS message, its id is what the call
\* returns when it is delivered, and its failure is returned.  In every
\* other case the result of the first send is the result of the call.
C38_RetryOnceAsSms ==
    /\ (call # Idle /\ call.op \in SendOps) =>
          /\ Len(call.sends) <= 2
          /\ Len(call.sends) = 2 <=> call.pc = "send_sms"
          /\ call.pc = "send_sms" => FellBack(call) /\ call.sends[2].service = "SMS"
    /\ ret.op \in SendOps =>
          /\ Len(ret.sends) <= 2
          /\ Len(ret.sends) = 2 <=> FellBack(ret)
          /\ \A i \in 1..Len(ret.sends) : IsSome(ret.sends[i].result)
          /\ Len(ret.sends) >= 1 =>
                LET last == ret.sends[Len(ret.sends)]
                IN  /\ ret.sends[1].service = Service(ret.is_sms)
                    /\ Len(ret.sends) = 2 => last.service = "SMS" /\ last.id # ret.sends[1].id
                    /\ IF last.result = Some("Ok")
                       THEN ret.tag = "Ok" /\ ret.arg = Some(last.id)
                       ELSE /\ ret.tag = "Err"
                            /\ ret.arg[1][2] = last.result[1]
          /\ Len(ret.sends) = 0 => ret.tag = "Err"

\* send_attachment fell back to SMS and returned the id of the SMS message
C38_Witness ==
    /\ ret.op = "send_attachment"
    /\ Len(ret.sends) = 2
    /\ ret.tag = "Ok" /\ ret.arg = Some(ret.sends[2].id)
    /\ ret.sends[1].service = "IMessage" /\ ret.sends[2].service = "SMS"

(***************************************************************************)
(* C39.  The sign-out requests of logout_all.                               *)
(***************************************************************************)
SignOut(event, services) == [event |-> "signout-" \o event, services |-> services]

SignOuts ==
    << SignOut("icloud", <<"imessage", "facetime">>), SignOut("imessage", <<"facetime">>),
       SignOut("facetime", <<>>), SignOut("all", <<>>) >>

IsSuccess(status) == IsSome(status) /\ status[1] >= 200 /\ status[1] <= 299

\* the requests posted are the first of SignOuts, in their order, and each
\* but the last was answered with a success status
SignOutsPosted(posted) ==
    /\ Len(posted) <= Len(SignOuts)
    /\ \A i \in 1..Len(posted) :
          /\ posted[i].event = SignOuts[i].event
          /\ posted[i].services = SignOuts[i].services
          /\ i < Len(posted) => IsSuccess(posted[i].status)

\* C39: logout_all posts its sign-out requests in the order icloud, imessage,
\* facetime, all, listing [imessage, facetime], [facetime], [] and [] as the
\* services; it posts at most these four, returns Ok exactly when all four
\* were answered with a success status, and after a request that failed it
\* posts no other.
C39_SignOutsInOrder ==
    /\ (call # Idle /\ call.op = "logout_all") =>
          /\ SignOutsPosted(call.posted)
          /\ \A i \in 1..Len(call.posted) :
                IsSome(call.posted[i].status) => IsSuccess(call.posted[i].status)
    /\ ret.op = "logout_all" =>
          /\ SignOutsPosted(ret.posted)
          /\ ret.tag = "Ok" <=>
                /\ Len(ret.posted) = Len(SignOuts)
                /\ IsSuccess(ret.posted[Len(SignOuts)].status)

\* the second request failed and logout_all returned its error
C39_Witness ==
    /\ ret.op = "logout_all" /\ ret.tag = "Err" /\ ret.kind = "AuthSrp"
    /\ Len(ret.posted) = 2
    /\ ret.posted[2].event = "signout-imessage"
    /\ ret.posted[2].status = Some(401)

====
